---- MODULE Spec2Model ----
(***************************************************************************)
(* State-machine model of the drawing-canvas hook useDrawingCanvas         *)
(* (src/src/components/drawing-tab/useDrawingCanvas.ts): the shape         *)
(* construction protocol and the past / present / future history (Spec),   *)
(* and of the stateless functions around it - sqft reconciliation, the     *)
(* legacy mapper and the JSON / XML serializers (PureSpec).                *)
(*                                                                         *)
(* Conventions                                                             *)
(*  - a nullable object (currentObject) is a sequence of length 0 or 1;    *)
(*  - a nullable id (selectedId) is NoId, a nullable mode is NoMode;       *)
(*  - a property bag is a function from property names to values,          *)
(*    {...a, ...b} is  b @@ a;                                             *)
(*  - coordinates are integers (pixels); area figures, which the code      *)
(*    rounds to 2 decimals, are integers counting hundredths;              *)
(*  - the timestamp field of a shape (Date.now()) is not modelled;         *)
(*  - lastOp, changed, rejectedId, loaded and steps are history variables: *)
(*    they record what was called, the program does not read them;         *)
(*  - call holds one call of a stateless function: PureSpec draws it with  *)
(*    its arguments and applies the function; Spec leaves it alone.        *)
(***************************************************************************)
EXTENDS Integers, Sequences, FiniteSets, TLC

VARIABLES
    historyRef,      \* historyRef.current : {past, present, future}
    history,         \* the React state `history` (canUndo / canRedo read it)
    canvasStateRef,  \* canvasStateRef.current : present fields + past + future
    modeRef,         \* modeRef.current
    idCounter,       \* number of ids handed out by generateId so far
    lastOp,          \* history variable: the command issued last
    changed,         \* history variable: it changed historyRef.current
    rejectedId,      \* history variable: id of the in-progress shape whose
                     \* completion was last rejected for too few points
    loaded,          \* history variable: the envelope last given to loadDrawing
    call,            \* a call of one of the stateless functions: its name,
                     \* its arguments and, once it has returned, its result
    steps            \* history variable: number of commands issued so far

vars == <<historyRef, history, canvasStateRef, modeRef, idCounter,
          lastOp, changed, rejectedId, loaded, call, steps>>

(* the variables of the hook *)
hookVars == <<historyRef, history, canvasStateRef, modeRef, idCounter,
              lastOp, changed, rejectedId, loaded, steps>>

----------------------------------------------------------------------------
(* Bounds of the exploration *)

MaxSteps == 4

(* Values standing for null *)
NoId == 0
NoMode == "null"

(* types.ts DrawingMode, without null *)
DrawingModes ==
    {"freeDraw", "straightLine", "orthoLine", "square", "rectangle",
     "angle", "curve", "circle"}

Pt(x, y) == [x |-> x, y |-> y]

(* Pointer positions offered to addPoint and to the point updates *)
PointInputs == {Pt(0, 0), Pt(3, 4)}

----------------------------------------------------------------------------
(* geometry.ts *)

Abs(n) == IF n < 0 THEN -n ELSE n

(* Math.sqrt on the integers: exact on perfect squares, floor elsewhere *)
Sqrt(n) == CHOOSE r \in 0..n : r * r <= n /\ (r + 1) * (r + 1) > n

getDistance(p1, p2) ==
    LET dx == p2.x - p1.x
        dy == p2.y - p1.y
    IN  Sqrt(dx * dx + dy * dy)

getRectangleBounds(p1, p2) ==
    [x |-> IF p1.x < p2.x THEN p1.x ELSE p2.x,
     y |-> IF p1.y < p2.y THEN p1.y ELSE p2.y,
     width |-> Abs(p2.x - p1.x),
     height |-> Abs(p2.y - p1.y)]

calculateRadius(points) ==
    IF Len(points) < 2 THEN 0 ELSE getDistance(points[1], points[2])

calculateDimensions(points) ==
    IF Len(points) < 2
    THEN [width |-> 0, height |-> 0]
    ELSE LET bounds == getRectangleBounds(points[1], points[2])
         IN  [width |-> bounds.width, height |-> bounds.height]

(* Math.atan2(dy, dx) in whole degrees, in (-180, 180]: exact on the axes   *)
(* and the diagonals, truncated towards zero on the slopes 3/4 and 4/3,     *)
(* the only directions the point inputs below produce.                      *)
Atan2Deg(dy, dx) ==
    LET ax == Abs(dx)
        ay == Abs(dy)
        first == CASE ay = 0 -> 0
                   [] ax = 0 -> 90
                   [] ax = ay -> 45
                   [] 4 * ay = 3 * ax -> 36
                   [] 3 * ay = 4 * ax -> 53
    IN  CASE dx >= 0 /\ dy >= 0 -> first
          [] dx < 0 /\ dy >= 0 -> 180 - first
          [] dx < 0 /\ dy < 0 -> first - 180
          [] OTHER -> -first

getAngle(p1, p2) == Atan2Deg(p2.y - p1.y, p2.x - p1.x)

calculateAngleDegrees(points) ==
    IF Len(points) < 2
    THEN 0
    ELSE LET degrees == getAngle(points[1], points[2])
         IN  IF degrees < 0 THEN degrees + 360 ELSE degrees

----------------------------------------------------------------------------
(* technicalDebt.ts *)

PIXELS_PER_FOOT == 5

(* faulty variant: the curve's entry of the table is 2 *)
minPoints_CurveTwo(mode) == 2

minPoints(mode) == IF mode = "curve" THEN 3 ELSE 2

(* faulty variant: the minimum itself is rejected *)
validatePointsForMode_Strict(mode, pointsLength) == pointsLength > minPoints(mode)

validatePointsForMode(mode, pointsLength) == pointsLength >= minPoints(mode)

----------------------------------------------------------------------------
(* legacyMapper.ts LegacyMeasurementCalculator; results in hundredths *)

RECURSIVE ShoelaceSum(_, _)
ShoelaceSum(points, i) ==
    IF i > Len(points)
    THEN 0
    ELSE LET current == points[i]
             next == points[(i % Len(points)) + 1]
         IN  (current.x * next.y - next.x * current.y)
                 + ShoelaceSum(points, i + 1)

(* Math.round(|area| / 2 / ppf^2 * 100): with ppf = 5 this is |area| * 2 *)
calculateSqft(points) ==
    IF Len(points) < 3
    THEN 0
    ELSE (Abs(ShoelaceSum(points, 1)) * 100 + PIXELS_PER_FOOT * PIXELS_PER_FOOT)
             \div (2 * PIXELS_PER_FOOT * PIXELS_PER_FOOT)

(* Math.round(PI * r * r * 100), PI taken as 3.1416 *)
calculateCircleArea(radiusFeet) ==
    IF radiusFeet <= 0
    THEN 0
    ELSE (31416 * radiusFeet * radiusFeet + 50) \div 100

----------------------------------------------------------------------------
(* Property bags *)

NoProps == [k \in {} |-> 0]

(* {...a, ...b} *)
Spread(a, b) == b @@ a

(* Option helpers for the nullable currentObject *)
Null == <<>>
Some(o) == <<o>>
IsNull(o) == o = <<>>

----------------------------------------------------------------------------
(* types.ts CanvasState and the hook's History *)

CanvasState(objects, currentObject, selectedId) ==
    [objects |-> objects, currentObject |-> currentObject,
     selectedId |-> selectedId]

EmptyCanvas == CanvasState(<<>>, Null, NoId)

History(past, present, future) ==
    [past |-> past, present |-> present, future |-> future]

(* {...next.present, past: next.past, future: next.future} *)
Flatten(h) ==
    [objects |-> h.present.objects,
     currentObject |-> h.present.currentObject,
     selectedId |-> h.present.selectedId,
     past |-> h.past,
     future |-> h.future]

MapSeq(s, F(_)) == [i \in 1..Len(s) |-> F(s[i])]

FilterSeq(s, Keep(_)) == SelectSeq(s, Keep)

----------------------------------------------------------------------------
(* The state updaters handed to setHistoryAndRef / setHistory: each maps    *)
(* the previous history to the next one.                                    *)

(* completeObject, lines 112-152: the derived properties *)
DerivedProperties(shapeType, points, properties) ==
    LET p1 == IF shapeType \in {"circle", "curve"}
              THEN LET radius == calculateRadius(points)
                   IN  ("sqft" :> calculateCircleArea(radius))
                           @@ ("radius" :> radius) @@ properties
              ELSE properties
        p2 == IF shapeType \in {"rectangle", "square"}
              THEN LET dims == calculateDimensions(points)
                   IN  ("sqft" :> dims.width * dims.height * 100)
                           @@ ("height" :> dims.height)
                           @@ ("width" :> dims.width) @@ p1
              ELSE p1
        p3 == IF shapeType \in {"angle", "straightLine", "orthoLine"}
              THEN LET angleDeg == calculateAngleDegrees(points)
                       distance == getDistance(points[1], points[2])
                   IN  ("distance" :> distance) @@ ("length" :> distance)
                           @@ ("angle" :> angleDeg)
                           @@ ("angleDegree" :> angleDeg) @@ p2
              ELSE p2
        p4 == IF shapeType = "freeDraw" /\ Len(points) >= 3
              THEN ("sqft" :> calculateSqft(points)) @@ p3
              ELSE p3
    IN  p4

CompletionValid(prev) ==
    /\ ~IsNull(prev.present.currentObject)
    /\ Len(prev.present.currentObject[1].points) # 0
    /\ validatePointsForMode(prev.present.currentObject[1].type,
                             Len(prev.present.currentObject[1].points))

completedObject(cur) ==
    [id |-> cur.id,
     type |-> cur.type,
     points |-> cur.points,
     properties |-> DerivedProperties(cur.type, cur.points, cur.properties)]

(* faulty variant: the completed shape also stays in progress *)
completeObjectUpdater_KeepsInProgress(prev) ==
    IF ~CompletionValid(prev)
    THEN prev
    ELSE LET cur == prev.present.currentObject[1]
             newState == [prev.present EXCEPT
                            !.objects = Append(@, completedObject(cur))]
         IN  History(Append(prev.past, prev.present), newState, <<>>)

completeObjectUpdater(prev) ==
    IF ~CompletionValid(prev)
    THEN prev
    ELSE LET cur == prev.present.currentObject[1]
             newState == [prev.present EXCEPT
                            !.objects = Append(@, completedObject(cur)),
                            !.currentObject = Null]
         IN  History(Append(prev.past, prev.present), newState, <<>>)

(* faulty variant: the constrained line is always horizontal *)
constrainedPoints_AlwaysHorizontal(type, newPoints) ==
    IF type = "orthoLine" /\ Len(newPoints) >= 2
    THEN <<newPoints[1], Pt(newPoints[2].x, newPoints[1].y)>>
             \o SubSeq(newPoints, 3, Len(newPoints))
    ELSE newPoints

(* the ortho constraint of updateCurrentObjectPoints *)
constrainedPoints(type, newPoints) ==
    IF type = "orthoLine" /\ Len(newPoints) >= 2
    THEN LET p1 == newPoints[1]
             p2 == newPoints[2]
             dx == Abs(p2.x - p1.x)
             dy == Abs(p2.y - p1.y)
         IN  IF dx > dy
             THEN <<newPoints[1], Pt(p2.x, p1.y)>> \o SubSeq(newPoints, 3, Len(newPoints))
             ELSE <<newPoints[1], Pt(p1.x, p2.y)>> \o SubSeq(newPoints, 3, Len(newPoints))
    ELSE newPoints

updateCurrentObjectPointsUpdater(prev, newPoints) ==
    IF IsNull(prev.present.currentObject)
    THEN prev
    ELSE LET cur == prev.present.currentObject[1]
         IN  [prev EXCEPT !.present.currentObject =
                 Some([cur EXCEPT !.points = constrainedPoints(cur.type, newPoints)])]

(* faulty variant: cancelling drops the redo stack *)
cancelObjectUpdater_ClearsFuture(prev) ==
    [prev EXCEPT !.present.currentObject = Null, !.future = <<>>]

cancelObjectUpdater(prev) ==
    [prev EXCEPT !.present.currentObject = Null]

clearCanvasUpdater(prev) ==
    History(Append(prev.past, prev.present), EmptyCanvas, <<>>)

(* faulty variant: loading keeps the undo stack *)
loadStateUpdater_KeepsPast(state) == History(historyRef.past, state, <<>>)

loadStateUpdater(state) == History(<<>>, state, <<>>)

(* faulty variant: adding a point drops the redo stack *)
addPointUpdater_ClearsFuture(prev, point, currentMode, newId) ==
    IF IsNull(prev.present.currentObject)
    THEN [prev EXCEPT !.future = <<>>,
                      !.present.currentObject =
                          Some([id |-> newId,
                                type |-> IF currentMode = NoMode
                                         THEN "unknown" ELSE currentMode,
                                points |-> <<point>>,
                                properties |-> NoProps])]
    ELSE [prev EXCEPT !.future = <<>>,
                      !.present.currentObject[1].points = Append(@, point)]

addPointUpdater(prev, point, currentMode, newId) ==
    IF IsNull(prev.present.currentObject)
    THEN [prev EXCEPT !.present.currentObject =
             Some([id |-> newId,
                   type |-> IF currentMode = NoMode THEN "unknown" ELSE currentMode,
                   points |-> <<point>>,
                   properties |-> NoProps])]
    ELSE [prev EXCEPT !.present.currentObject[1].points = Append(@, point)]

(* faulty variant: the filter keeps the shape it should remove *)
deleteObjectUpdater_KeepsOnlyId(prev, id) ==
    LET Keep(obj) == obj.id = id
        newState == [prev.present EXCEPT !.objects = FilterSeq(@, Keep)]
    IN  History(Append(prev.past, prev.present), newState, <<>>)

(* faulty variant: the delete keeps the redo stack *)
deleteObjectUpdater_KeepsFuture(prev, id) ==
    LET Keep(obj) == obj.id # id
        newState == [prev.present EXCEPT !.objects = FilterSeq(@, Keep)]
    IN  History(Append(prev.past, prev.present), newState, prev.future)

deleteObjectUpdater(prev, id) ==
    LET Keep(obj) == obj.id # id
        newState == [prev.present EXCEPT !.objects = FilterSeq(@, Keep)]
    IN  History(Append(prev.past, prev.present), newState, <<>>)

selectObjectUpdater(prev, id) ==
    [prev EXCEPT !.present.selectedId = id]

updateObjectPointsByIdUpdater(prev, id, newPoints) ==
    LET Upd(obj) == IF obj.id = id THEN [obj EXCEPT !.points = newPoints] ELSE obj
        newState == [prev.present EXCEPT !.objects = MapSeq(@, Upd)]
    IN  History(Append(prev.past, prev.present), newState, <<>>)

(* faulty variant: every shape is moved, not only the one named *)
moveObjectByDeltaUpdater_MovesAll(prev, id, dx, dy) ==
    LET MovePt(p) == Pt(p.x + dx, p.y + dy)
        Upd(obj) == [obj EXCEPT !.points = MapSeq(@, MovePt)]
        newState == [prev.present EXCEPT !.objects = MapSeq(@, Upd)]
    IN  History(Append(prev.past, prev.present), newState, <<>>)

moveObjectByDeltaUpdater(prev, id, dx, dy) ==
    LET MovePt(p) == Pt(p.x + dx, p.y + dy)
        Upd(obj) == IF obj.id # id
                    THEN obj
                    ELSE [obj EXCEPT !.points = MapSeq(@, MovePt)]
        newState == [prev.present EXCEPT !.objects = MapSeq(@, Upd)]
    IN  History(Append(prev.past, prev.present), newState, <<>>)

(* faulty variant: the undone state is not kept for redo *)
undoUpdater_DropsPresent(prev) ==
    IF Len(prev.past) = 0
    THEN prev
    ELSE LET previous == prev.past[Len(prev.past)]
             newPast == SubSeq(prev.past, 1, Len(prev.past) - 1)
         IN  History(newPast, previous, prev.future)

undoUpdater(prev) ==
    IF Len(prev.past) = 0
    THEN prev
    ELSE LET previous == prev.past[Len(prev.past)]
             newPast == SubSeq(prev.past, 1, Len(prev.past) - 1)
         IN  History(newPast, previous, <<prev.present>> \o prev.future)

(* faulty variant: redo with nothing to redo still pushes a history entry *)
redoUpdater_PushesWhenEmpty(prev) ==
    IF Len(prev.future) = 0
    THEN History(Append(prev.past, prev.present), prev.present, <<>>)
    ELSE LET next == prev.future[1]
             newFuture == Tail(prev.future)
         IN  History(Append(prev.past, prev.present), next, newFuture)

redoUpdater(prev) ==
    IF Len(prev.future) = 0
    THEN prev
    ELSE LET next == prev.future[1]
             newFuture == Tail(prev.future)
         IN  History(Append(prev.past, prev.present), next, newFuture)

updateCurrentObjectPropertiesUpdater(prev, props) ==
    IF IsNull(prev.present.currentObject)
    THEN prev
    ELSE LET cur == prev.present.currentObject[1]
             updatedCurrent == [cur EXCEPT !.properties = Spread(@, props)]
             newState == [prev.present EXCEPT !.currentObject = Some(updatedCurrent)]
         IN  History(Append(prev.past, prev.present), newState, <<>>)

updateSelectedObjectPropertiesUpdater(prev, props) ==
    IF prev.present.selectedId = NoId
    THEN prev
    ELSE LET Upd(obj) == IF obj.id = prev.present.selectedId
                         THEN [obj EXCEPT !.properties = Spread(@, props)]
                         ELSE obj
             newState == [prev.present EXCEPT !.objects = MapSeq(@, Upd)]
         IN  History(Append(prev.past, prev.present), newState, <<>>)

(* lines 453-454 *)
canUndo == Len(history.past) > 0
canRedo == Len(history.future) > 0

----------------------------------------------------------------------------
(* Inputs of the commands *)

(* Point lists offered to updateObjectPointsById *)
ResizeInputs == {<<Pt(1, 1), Pt(4, 5)>>}

(* Point lists offered to updateCurrentObjectPoints *)
PointListInputs ==
    {<<Pt(0, 0), Pt(4, 3)>>, <<Pt(0, 0), Pt(3, 4)>>,
     <<Pt(0, 0), Pt(3, 0), Pt(0, 4)>>}

(* Deltas offered to moveObjectByDelta *)
DeltaInputs == {Pt(1, 2)}

(* Property maps offered to the property updates *)
PropInputs == {"color" :> "red"}

(* An id no shape carries *)
UnknownId == 99

(* Shapes of a saved drawing: what completeObject produced when it was saved *)
Saved(id, type, points) ==
    completedObject([id |-> id, type |-> type, points |-> points,
                     properties |-> NoProps])

SavedObjects ==
    <<Saved(101, "straightLine", <<Pt(0, 0), Pt(3, 0)>>),
      Saved(102, "circle", <<Pt(0, 0), Pt(3, 4)>>),
      Saved(103, "rectangle", <<Pt(0, 0), Pt(3, 4)>>)>>

(* Shapes that were in progress when the drawing was saved *)
SavedLineStart ==
    [id |-> 104, type |-> "straightLine", points |-> <<Pt(0, 0)>>,
     properties |-> NoProps]

SavedRectangle ==
    [id |-> 105, type |-> "rectangle", points |-> <<Pt(0, 0), Pt(3, 4)>>,
     properties |-> NoProps]

(* Envelopes offered to loadDrawing; an absent field is the empty sequence *)
Envelope(version, canvasState, objects) ==
    [version |-> version, canvasState |-> canvasState, objects |-> objects]

(* no envelope was given yet *)
NoEnvelope == Envelope("none", <<>>, <<>>)

EnvelopeInputs ==
    {Envelope("2.0", <<CanvasState(SubSeq(SavedObjects, 1, 1),
                                   Some(SavedLineStart), 101)>>, <<>>),
     Envelope("2.0", <<CanvasState(SubSeq(SavedObjects, 1, 2),
                                   Some(SavedRectangle), NoId)>>, <<>>),
     Envelope("1.0", <<>>, <<SavedObjects>>),
     Envelope("1.0", <<>>, <<>>)}

(* Ids of the shapes on the canvas *)
LiveIds(state) == {state.objects[i].id : i \in 1..Len(state.objects)}

(* Ids a caller can name: those of the shapes on the canvas, or a stale one *)
IdInputs == LiveIds(historyRef.present) \cup {UnknownId}

(* Ids a caller can select: a shape on the canvas, or none *)
SelectInputs == LiveIds(historyRef.present) \cup {NoId}

----------------------------------------------------------------------------
(* JavaScript numbers, as far as the sqft checks need them: a finite value  *)
(* is the exact fraction num / den with den > 0; Infinity and NaN are what  *)
(* a division by zero gives; undefined is an argument left out              *)

Num(n) == [kind |-> "finite", num |-> n, den |-> 1]
Frac(n, d) == [kind |-> "finite", num |-> n, den |-> d]
Infinity == [kind |-> "Infinity", num |-> 1, den |-> 0]
NaN == [kind |-> "NaN", num |-> 0, den |-> 0]
Undefined == [kind |-> "undefined", num |-> 0, den |-> 0]

(* a - b *)
JsMinus(a, b) ==
    IF a.kind = "finite" /\ b.kind = "finite"
    THEN Frac(a.num * b.den - b.num * a.den, a.den * b.den)
    ELSE NaN

(* Math.abs(a) *)
MathAbs(a) ==
    IF a.kind = "finite" THEN Frac(Abs(a.num), a.den)
    ELSE IF a.kind = "Infinity" THEN Infinity
    ELSE NaN

(* a / b, for a >= 0 and b >= 0 *)
JsDivide(a, b) ==
    IF a.kind = "finite" /\ b.kind = "finite"
    THEN IF b.num # 0 THEN Frac(a.num * b.den, a.den * b.num)
         ELSE IF a.num # 0 THEN Infinity
         ELSE NaN
    ELSE IF a.kind = "Infinity" /\ b.kind = "finite" THEN Infinity
    ELSE NaN

(* a <= b and a < b; every comparison with NaN is false *)
JsLessOrEqual(a, b) ==
    IF a.kind = "finite" /\ b.kind = "finite"
    THEN a.num * b.den <= b.num * a.den
    ELSE a.kind \in {"finite", "Infinity"} /\ b.kind = "Infinity"

JsLess(a, b) ==
    IF a.kind = "finite" /\ b.kind = "finite"
    THEN a.num * b.den < b.num * a.den
    ELSE a.kind = "finite" /\ b.kind = "Infinity"

(* !a : undefined, NaN and 0 are falsy *)
JsNot(a) == a.kind \in {"undefined", "NaN"} \/ (a.kind = "finite" /\ a.num = 0)

----------------------------------------------------------------------------
(* Sqft validation and reconciliation *)

(* the default tolerance, 0.05 *)
DefaultTolerance == Frac(5, 100)

(* BuildingContextManager.validateSqft *)
validateSqft(calculatedSqft, expectedLegacySqft, tolerance) ==
    IF JsNot(expectedLegacySqft)
    THEN [valid |-> TRUE, difference |-> Num(0), percentDifference |-> Num(0)]
    ELSE LET difference == MathAbs(JsMinus(calculatedSqft, expectedLegacySqft))
             percentDifference == JsDivide(difference, expectedLegacySqft)
         IN  [valid |-> JsLessOrEqual(percentDifference, tolerance),
              difference |-> difference,
              percentDifference |-> percentDifference]

(* SqftReconciliationManager.reconcile *)
reconcile(legacySqft, calculatedSqft, tolerance) ==
    LET difference == JsMinus(calculatedSqft, legacySqft)
        percentDifference == JsDivide(MathAbs(difference), legacySqft)
        isValid == JsLessOrEqual(percentDifference, tolerance)
        recommendation ==
            IF isValid
            THEN "Drawings match legacy sqft within tolerance."
            ELSE IF JsLess(percentDifference, Frac(1, 10))
            THEN "Minor discrepancy (< 10%). Drawings likely accurate."
            ELSE IF JsLess(percentDifference, Frac(2, 10))
            THEN "Moderate discrepancy (10-20%). Review drawing adjustments."
            ELSE "Major discrepancy (> 20%). Drawing may need revision."
    IN  [legacySqft |-> legacySqft,
         calculatedSqft |-> calculatedSqft,
         difference |-> difference,
         percentDifference |-> percentDifference,
         isValid |-> isValid,
         adjustmentNeeded |-> difference,
         recommendation |-> recommendation]

----------------------------------------------------------------------------
(* Legacy type conversions *)

(* mapping[key] on an object literal: an own property, else a member        *)
(* inherited from Object.prototype, else undefined (the empty sequence)     *)
ObjectPrototypeMembers ==
    {"constructor", "toString", "toLocaleString", "valueOf", "hasOwnProperty",
     "isPrototypeOf", "propertyIsEnumerable", "__proto__"}

InheritedMember == "[Object.prototype member]"

PropertyOf(mapping, key) ==
    IF key \in DOMAIN mapping THEN <<mapping[key]>>
    ELSE IF key \in ObjectPrototypeMembers THEN <<InheritedMember>>
    ELSE <<>>

toLegacyTypeMapping ==
    [freeDraw |-> "FreeHand",
     straightLine |-> "Line",
     orthoLine |-> "OrthoLine",
     square |-> "Square",
     rectangle |-> "Rectangle",
     angle |-> "Angle",
     curve |-> "Curve",
     circle |-> "Circle"]

toLegacyType(mode) ==
    LET found == PropertyOf(toLegacyTypeMapping, mode)
    IN  IF found # <<>> THEN found[1] ELSE "Unknown"

fromLegacyTypeMapping ==
    [FreeHand |-> "freeDraw",
     Line |-> "straightLine",
     StraightLine |-> "straightLine",
     OrthoLine |-> "orthoLine",
     Square |-> "square",
     Rectangle |-> "rectangle",
     Angle |-> "angle",
     Curve |-> "curve",
     Circle |-> "circle"]

fromLegacyType(legacyType) ==
    LET found == PropertyOf(fromLegacyTypeMapping, legacyType)
    IN  IF found # <<>> THEN found[1] ELSE NoMode

----------------------------------------------------------------------------
(* JavaScript strings, as far as the converters need them: a string is the  *)
(* sequence of its characters                                               *)

Str(chars) == [kind |-> "string", chars |-> chars]

DigitChars == <<"0", "1", "2", "3", "4", "5", "6", "7", "8", "9">>

IsDigit(c) == \E d \in 1..10 : DigitChars[d] = c

DigitValue(c) == (CHOOSE d \in 1..10 : DigitChars[d] = c) - 1

RECURSIVE Pow10(_)
Pow10(k) == IF k = 0 THEN 1 ELSE 10 * Pow10(k - 1)

RECURSIVE NatToChars(_)
NatToChars(n) ==
    IF n < 10
    THEN <<DigitChars[n + 1]>>
    ELSE Append(NatToChars(n \div 10), DigitChars[(n % 10) + 1])

(* the digits without the zeros at the end *)
RECURSIVE TrimZeros(_)
TrimZeros(digits) ==
    IF digits # <<>> /\ digits[Len(digits)] = "0"
    THEN TrimZeros(SubSeq(digits, 1, Len(digits) - 1))
    ELSE digits

(* value.toString() of a finite number with at most three decimals *)
NumberToString(a) ==
    LET thousandths == (Abs(a.num) * 1000) \div a.den
        decimals == TrimZeros(<<DigitChars[((thousandths \div 100) % 10) + 1],
                                DigitChars[((thousandths \div 10) % 10) + 1],
                                DigitChars[(thousandths % 10) + 1]>>)
    IN  (IF a.num < 0 THEN <<"-">> ELSE <<>>)
            \o NatToChars(thousandths \div 1000)
            \o (IF decimals = <<>> THEN <<>> ELSE <<".">> \o decimals)

(* the longest prefix of chars made of digits *)
RECURSIVE TakeDigits(_)
TakeDigits(chars) ==
    IF chars # <<>> /\ IsDigit(Head(chars))
    THEN <<Head(chars)>> \o TakeDigits(Tail(chars))
    ELSE <<>>

RECURSIVE DigitsValue(_)
DigitsValue(digits) ==
    IF digits = <<>>
    THEN 0
    ELSE 10 * DigitsValue(SubSeq(digits, 1, Len(digits) - 1))
            + DigitValue(digits[Len(digits)])

RECURSIVE TrimStart(_)
TrimStart(chars) ==
    IF chars # <<>> /\ Head(chars) = " " THEN TrimStart(Tail(chars)) ELSE chars

(* parseFloat(string): leading blanks, a sign, digits, a decimal point and  *)
(* digits; what follows is ignored; NaN when there is no digit. Exponents   *)
(* and the word Infinity are not modelled. The stages, last first: the      *)
(* number of the digits read, the decimals after the point, the rest after  *)
(* the whole digits, the whole digits, the sign.                            *)
parseFloatDigits(negative, whole, decimals) ==
    IF whole = <<>> /\ decimals = <<>>
    THEN NaN
    ELSE Frac((IF negative THEN -1 ELSE 1)
                  * (DigitsValue(whole) * Pow10(Len(decimals))
                        + DigitsValue(decimals)),
              Pow10(Len(decimals)))

parseFloatRest(negative, whole, rest) ==
    parseFloatDigits(negative, whole,
                     IF rest # <<>> /\ Head(rest) = "."
                     THEN TakeDigits(Tail(rest))
                     ELSE <<>>)

parseFloatWhole(negative, unsigned, whole) ==
    parseFloatRest(negative, whole,
                   SubSeq(unsigned, Len(whole) + 1, Len(unsigned)))

parseFloatUnsigned(negative, unsigned) ==
    parseFloatWhole(negative, unsigned, TakeDigits(unsigned))

parseFloatTrimmed(trimmed) ==
    IF trimmed # <<>> /\ Head(trimmed) \in {"-", "+"}
    THEN parseFloatUnsigned(Head(trimmed) = "-", Tail(trimmed))
    ELSE parseFloatUnsigned(FALSE, trimmed)

parseFloat(chars) == parseFloatTrimmed(TrimStart(chars))

(* string.includes(c) for a single character c *)
Includes(chars, c) == \E i \in 1..Len(chars) : chars[i] = c

(* string.split(c) for a single character c *)
RECURSIVE Split(_, _)
Split(chars, c) ==
    IF ~Includes(chars, c)
    THEN <<chars>>
    ELSE LET i == CHOOSE k \in 1..Len(chars) :
                      chars[k] = c /\ \A j \in 1..(k - 1) : chars[j] # c
         IN  <<SubSeq(chars, 1, i - 1)>>
                 \o Split(SubSeq(chars, i + 1, Len(chars)), c)

(* a || 0 for a number a *)
OrZero(a) == IF JsNot(a) THEN Num(0) ELSE a

(* a + b *)
JsPlus(a, b) ==
    IF a.kind = "finite" /\ b.kind = "finite"
    THEN Frac(a.num * b.den + b.num * a.den, a.den * b.den)
    ELSE NaN

(* a === b for numbers *)
JsEquals(a, b) ==
    a.kind = "finite" /\ b.kind = "finite" /\ a.num * b.den = b.num * a.den

----------------------------------------------------------------------------
(* Precision conversion *)

fromLegacyFeetString_FractionFollowsSign(value) ==
    IF value.kind = "undefined" THEN Num(0)
    ELSE IF value.kind # "string" THEN value
    ELSE IF Includes(value.chars, " ")
    THEN LET parts == Split(value.chars, " ")
             wholeNum == OrZero(parseFloat(parts[1]))
             fraction == Split(parts[2], "/")
             numerator == OrZero(parseFloat(fraction[1]))
             denominator == IF Len(fraction) >= 2
                            THEN OrZero(parseFloat(fraction[2]))
                            ELSE Undefined
             part == IF JsNot(denominator) THEN Num(0)
                     ELSE Frac(numerator.num * denominator.den,
                               numerator.den * denominator.num)
         IN  IF wholeNum.num < 0 THEN JsMinus(wholeNum, part)
             ELSE JsPlus(wholeNum, part)
    ELSE OrZero(parseFloat(value.chars))

(* PrecisionConverter.fromLegacyFeetString: value is undefined, a number or *)
(* a string                                                                 *)
fromLegacyFeetString(value) ==
    IF value.kind = "undefined" THEN Num(0)
    ELSE IF value.kind # "string" THEN value
    ELSE IF Includes(value.chars, " ")
    THEN LET parts == Split(value.chars, " ")
             wholeNum == OrZero(parseFloat(parts[1]))
             fraction == Split(parts[2], "/")
             numerator == OrZero(parseFloat(fraction[1]))
             denominator == IF Len(fraction) >= 2
                            THEN OrZero(parseFloat(fraction[2]))
                            ELSE Undefined
         IN  JsPlus(wholeNum,
                    IF JsNot(denominator) THEN Num(0)
                    ELSE Frac(numerator.num * denominator.den,
                              numerator.den * denominator.num))
    ELSE OrZero(parseFloat(value.chars))

(* Math.floor of a finite number *)
MathFloor(a) == Num(CHOOSE n \in (-Abs(a.num) - 1)..(Abs(a.num) + 1) :
                        n * a.den <= a.num /\ a.num < (n + 1) * a.den)

(* PrecisionConverter.toLegacyFeetString *)
toLegacyFeetString(value, useFraction) ==
    IF ~useFraction
    THEN Str(NumberToString(value))
    ELSE LET whole == MathFloor(value)
             decimal == JsMinus(value, whole)
             near(q) == JsLess(MathAbs(JsMinus(decimal, q)), Frac(1, 100))
         IN  IF decimal.num = 0 THEN Str(NumberToString(whole))
             ELSE IF near(Frac(1, 2))
             THEN Str(NumberToString(whole) \o <<" ", "1", "/", "2">>)
             ELSE IF near(Frac(1, 4))
             THEN Str(NumberToString(whole) \o <<" ", "1", "/", "4">>)
             ELSE IF near(Frac(3, 4))
             THEN Str(NumberToString(whole) \o <<" ", "3", "/", "4">>)
             ELSE Str(NumberToString(value))

----------------------------------------------------------------------------
(* Legacy object conversion. A legacy record, like a property bag, is a     *)
(* function from the names of the fields that are not undefined to their    *)
(* values; the position and size fields hold strings or numbers, the other  *)
(* fields hold what the property bag held. The shapes converted are those   *)
(* of the hook, whose coordinates and dimensions are integers.              *)

(* record.field, undefined being the empty sequence *)
Field(record, name) ==
    IF name \in DOMAIN record THEN <<record[name]>> ELSE <<>>

(* { name: value }, nothing when value is undefined *)
With(name, value) ==
    IF value = <<>> THEN NoProps ELSE name :> value[1]

(* a || b for optional booleans *)
BoolOr(a, b) == IF a # <<>> /\ a[1] THEN a ELSE b

(* the fields toLegacy copies from the property bag as they are *)
toLegacyCopied ==
    {"buildingId", "name", "tag", "text", "groupName", "sequence",
     "penOrFontSize", "penOrFontColor",
     "lineFootX1", "lineFootX2", "lineFootY1", "lineFootY2",
     "arcRadius", "arcStartFootX", "arcStartFootY", "arcPointFootX",
     "arcPointFootY", "arcMouseEndFootX", "arcMouseEndFootY", "sweepDirection",
     "drawingAdjustments",
     "buildingPhysicalGood", "buildingClass", "buildingSqft", "buildingNewSqft",
     "buildingTotalSqft", "buildingCalls", "buildingNotes", "buildingPage",
     "isDrawingByTenth", "modifiedBy", "modifiedDate", "version"}

pointToLegacyFeetString(value) ==
    IF value = <<>> THEN Str(<<>>) ELSE toLegacyFeetString(Num(value[1]), FALSE)

dimensionToLegacyFeetString(value) ==
    IF value = <<>> THEN Str(<<>>) ELSE toLegacyFeetString(Num(value[1]), FALSE)

(* LegacyObjectConverter.toLegacy *)
toLegacy(drawing) ==
    LET properties == drawing.properties
        first == IF Len(drawing.points) >= 1 THEN <<drawing.points[1]>> ELSE <<>>
        angle == Field(properties, "angle")
    IN  [k \in toLegacyCopied \cap DOMAIN properties |-> properties[k]]
            @@ ("footX" :> pointToLegacyFeetString(
                               IF first = <<>> THEN <<>> ELSE <<first[1].x>>))
            @@ ("footY" :> pointToLegacyFeetString(
                               IF first = <<>> THEN <<>> ELSE <<first[1].y>>))
            @@ ("footWidth" :> dimensionToLegacyFeetString(
                                   Field(properties, "width")))
            @@ ("footHeight" :> dimensionToLegacyFeetString(
                                    Field(properties, "height")))
            @@ ("rotatedAngle" :> IF angle = <<>> THEN Num(0)
                                  ELSE OrZero(Num(angle[1])))
            @@ ("drawingType" :> toLegacyType(drawing.type))
            @@ With("isClosed", BoolOr(Field(properties, "isClosed"),
                                       Field(properties, "closed")))
            @@ With("isCurveClosed", BoolOr(Field(properties, "isCurveClosed"),
                                            Field(properties, "closed")))
            @@ ("isActive" :> (Field(properties, "isActive") # <<FALSE>>))

(* the feet field of a legacy record, undefined when it is missing *)
FeetField(legacy, name) ==
    IF name \in DOMAIN legacy THEN legacy[name] ELSE Undefined

(* the point of a pair of fields, when both are there *)
PairPoint(legacy, xName, yName) ==
    IF xName \in DOMAIN legacy /\ yName \in DOMAIN legacy
    THEN <<Pt(legacy[xName], legacy[yName])>>
    ELSE <<>>

(* LegacyObjectConverter.extractPointsFromLegacy *)
extractPointsFromLegacy(legacy) ==
    LET x == fromLegacyFeetString(FeetField(legacy, "footX"))
        y == fromLegacyFeetString(FeetField(legacy, "footY"))
        base == <<Pt(OrZero(x), OrZero(y))>>
        drawingType == Field(legacy, "drawingType")
        points ==
            IF drawingType \in {<<"Line">>, <<"StraightLine">>}
            THEN base \o PairPoint(legacy, "lineFootX1", "lineFootY1")
                      \o PairPoint(legacy, "lineFootX2", "lineFootY2")
            ELSE IF drawingType \in {<<"Circle">>, <<"Curve">>}
            THEN base \o PairPoint(legacy, "arcStartFootX", "arcStartFootY")
                      \o PairPoint(legacy, "arcPointFootX", "arcPointFootY")
                      \o PairPoint(legacy, "arcMouseEndFootX", "arcMouseEndFootY")
            ELSE base
    IN  IF Len(points) > 0 THEN points ELSE <<Pt(Num(0), Num(0))>>

(* the characters of 'clock', 'clockwise' and 'counterclockwise' *)
ClockChars == <<"c", "l", "o", "c", "k">>
ClockwiseChars == ClockChars \o <<"w", "i", "s", "e">>
CounterclockwiseChars == <<"c", "o", "u", "n", "t", "e", "r">> \o ClockwiseChars

(* string.toLowerCase(), on the letters the sweep directions use *)
ToLowerCase(chars) ==
    LET upper == <<"C", "L", "O", "K", "W", "I", "S", "E", "U", "N", "T", "R">>
        lower == <<"c", "l", "o", "k", "w", "i", "s", "e", "u", "n", "t", "r">>
    IN  [i \in 1..Len(chars) |->
            IF \E u \in 1..Len(upper) : upper[u] = chars[i]
            THEN lower[CHOOSE u \in 1..Len(upper) : upper[u] = chars[i]]
            ELSE chars[i]]

(* string.includes(part) *)
IncludesString(chars, part) ==
    \E i \in 0..(Len(chars) - Len(part)) :
        SubSeq(chars, i + 1, i + Len(part)) = part

(* LegacyDrawingTypeMapper.normalizeSweepDirection; direction is undefined  *)
(* or the characters of a string                                            *)
normalizeSweepDirection(direction) ==
    IF direction = <<>> \/ direction[1] = <<>>
    THEN CounterclockwiseChars
    ELSE IF IncludesString(ToLowerCase(direction[1]), ClockChars)
    THEN ClockwiseChars
    ELSE CounterclockwiseChars

(* the fields extractPropertiesFromLegacy copies from the record as they are *)
fromLegacyCopied ==
    {"buildingId", "name", "tag", "text", "groupName", "sequence",
     "penOrFontSize", "penOrFontColor",
     "arcRadius", "arcStartFootX", "arcStartFootY", "arcPointFootX",
     "arcPointFootY", "isClosed", "isCurveClosed",
     "buildingPhysicalGood", "buildingClass", "buildingSqft", "buildingNewSqft",
     "buildingTotalSqft", "buildingCalls", "buildingNotes", "buildingPage",
     "drawingAdjustments", "modifiedBy", "modifiedDate",
     "lineFootX1", "lineFootX2", "lineFootY1", "lineFootY2"}

(* LegacyObjectConverter.extractPropertiesFromLegacy *)
extractPropertiesFromLegacy(legacy) ==
    LET rotatedAngle == Field(legacy, "rotatedAngle")
        version == Field(legacy, "version")
        isDrawingByTenth == Field(legacy, "isDrawingByTenth")
    IN  [k \in fromLegacyCopied \cap DOMAIN legacy |-> legacy[k]]
            @@ ("footX" :> fromLegacyFeetString(FeetField(legacy, "footX")))
            @@ ("footY" :> fromLegacyFeetString(FeetField(legacy, "footY")))
            @@ ("width" :> fromLegacyFeetString(FeetField(legacy, "footWidth")))
            @@ ("height" :> fromLegacyFeetString(FeetField(legacy, "footHeight")))
            @@ ("angle" :> IF rotatedAngle = <<>> THEN Num(0)
                           ELSE OrZero(rotatedAngle[1]))
            @@ With("radius", Field(legacy, "arcRadius"))
            @@ ("sweepDirection" :> normalizeSweepDirection(
                                        Field(legacy, "sweepDirection")))
            @@ With("closed", BoolOr(Field(legacy, "isClosed"),
                                     Field(legacy, "isCurveClosed")))
            @@ ("isDrawingByTenth" :> IF isDrawingByTenth = <<>> THEN FALSE
                                      ELSE isDrawingByTenth[1])
            @@ ("version" :> IF version \in {<<>>, <<0>>} THEN 1 ELSE version[1])
            @@ ("isActive" :> (Field(legacy, "isActive") # <<FALSE>>))

(* LegacyObjectConverter.fromLegacy(legacy, id); generated is the id the    *)
(* template string gives when id is left out                                *)
fromLegacy(legacy, id, generated) ==
    LET drawingType == Field(legacy, "drawingType")
    IN  [id |-> IF id # <<>> THEN id[1] ELSE generated,
         type |-> fromLegacyType(IF drawingType = <<>> THEN ""
                                 ELSE drawingType[1]),
         points |-> extractPointsFromLegacy(legacy),
         properties |-> extractPropertiesFromLegacy(legacy),
         legacyData |-> legacy]

----------------------------------------------------------------------------
(* Hierarchical (JSON) serialization. The JSON text is the record of the    *)
(* fields JSON.stringify writes: undefined fields are left out, and a       *)
(* number that is not finite is written as null; rotatedAngle, the one      *)
(* number toLegacy computes, is then read back as 0 by `|| 0`, as if it     *)
(* were missing.                                                            *)

JSONStringify(legacyData) ==
    [k \in {f \in DOMAIN legacyData :
              f = "rotatedAngle" => legacyData[f].kind = "finite"}
        |-> legacyData[k]]

JSONParse(json) == json

(* DrawingJSONSerializer.serialize *)
serialize(drawing) == JSONStringify(toLegacy(drawing))

(* DrawingJSONSerializer.deserialize *)
deserialize(json, generated) == fromLegacy(JSONParse(json), <<>>, generated)

----------------------------------------------------------------------------
(* Tagged-markup (XML) serialization. An element is its attribute table, as *)
(* the DOM parser gives it back, and its text; escapeXml and the parser's   *)
(* unescaping of the five metacharacters cancel out and are not modelled.   *)
(* A number is written as the characters of its decimal form; the numbers   *)
(* a property bag of the hook holds are integers.                           *)

(* attributes written from text fields, from number fields and from the     *)
(* position and size fields                                                 *)
XmlTextAttributes ==
    [BuildingId |-> "buildingId", Name |-> "name", Tag |-> "tag",
     Text |-> "text", GroupName |-> "groupName",
     PenOrFontColor |-> "penOrFontColor", ModifiedBy |-> "modifiedBy",
     ModifiedDate |-> "modifiedDate"]

XmlNumberAttributes ==
    [Sequence |-> "sequence", PenOrFontSize |-> "penOrFontSize",
     LineFootX1 |-> "lineFootX1", LineFootX2 |-> "lineFootX2",
     LineFootY1 |-> "lineFootY1", LineFootY2 |-> "lineFootY2",
     ArcRadius |-> "arcRadius",
     ArcStartFootX |-> "arcStartFootX", ArcStartFootY |-> "arcStartFootY",
     ArcPointFootX |-> "arcPointFootX", ArcPointFootY |-> "arcPointFootY",
     Version |-> "version"]

XmlFeetAttributes ==
    [FootX |-> "footX", FootY |-> "footY",
     FootWidth |-> "footWidth", FootHeight |-> "footHeight"]

BoolToString(b) == IF b THEN "true" ELSE "false"

(* DrawingXMLSerializer.toXmlElement *)
toXmlElement(legacy, id) ==
    LET written(table, truthy(_)) ==
            {a \in DOMAIN table :
                table[a] \in DOMAIN legacy /\ truthy(legacy[table[a]])}
        nonEmpty(v) == v # ""
        nonZero(v) == v # 0
        hasChars(v) == v.chars # <<>>
        rotatedAngle == Field(legacy, "rotatedAngle")
        sweepDirection == Field(legacy, "sweepDirection")
    IN  [attributes |->
            ("Id" :> id)
                @@ [a \in written(XmlTextAttributes, nonEmpty)
                        |-> legacy[XmlTextAttributes[a]]]
                @@ [a \in written(XmlNumberAttributes, nonZero)
                        |-> NumberToString(Num(legacy[XmlNumberAttributes[a]]))]
                @@ [a \in written(XmlFeetAttributes, hasChars)
                        |-> legacy[XmlFeetAttributes[a]].chars]
                @@ (IF rotatedAngle # <<>> /\ ~JsNot(rotatedAngle[1])
                    THEN "RotatedAngle" :> NumberToString(rotatedAngle[1])
                    ELSE NoProps)
                @@ (IF sweepDirection # <<>> /\ sweepDirection[1] # <<>>
                    THEN "SweepDirection" :> sweepDirection[1]
                    ELSE NoProps)
                @@ ("IsClosed" :> BoolToString(
                        Field(legacy, "isClosed") = <<TRUE>>))
                @@ ("IsCurveClosed" :> BoolToString(
                        Field(legacy, "isCurveClosed") = <<TRUE>>))
                @@ ("IsActive" :> BoolToString(
                        Field(legacy, "isActive") # <<FALSE>>)),
         textContent |-> Field(legacy, "drawingAdjustments")]

(* elem.getAttribute(name), null being the empty sequence *)
getAttribute(elem, name) == Field(elem.attributes, name)

(* DrawingXMLSerializer.fromXmlElement *)
fromXmlElement(elem) ==
    LET read(table) == {a \in DOMAIN table : a \in DOMAIN elem.attributes}
        fieldsOf(table, Value(_)) ==
            [f \in {table[a] : a \in read(table)} |->
                Value(elem.attributes[CHOOSE a \in read(table) : table[a] = f])]
        asText(v) == v
        asNumber(v) == parseFloat(v)
        asFeet(v) == Str(v)
        textFields ==
            [f \in {g \in DOMAIN fieldsOf(XmlTextAttributes, asText) :
                      fieldsOf(XmlTextAttributes, asText)[g] # ""}
                |-> fieldsOf(XmlTextAttributes, asText)[f]]
        feetFields ==
            [f \in {g \in DOMAIN fieldsOf(XmlFeetAttributes, asFeet) :
                      fieldsOf(XmlFeetAttributes, asFeet)[g].chars # <<>>}
                |-> fieldsOf(XmlFeetAttributes, asFeet)[f]]
        numberFields ==
            [f \in {g \in DOMAIN fieldsOf(XmlNumberAttributes, asText) :
                      fieldsOf(XmlNumberAttributes, asText)[g] # <<>>}
                |-> fieldsOf(XmlNumberAttributes, asNumber)[f]]
        rotatedAngle == getAttribute(elem, "RotatedAngle")
        drawingType == getAttribute(elem, "DrawingType")
        sweepDirection == getAttribute(elem, "SweepDirection")
        textContent == elem.textContent
    IN  textFields @@ feetFields @@ numberFields
            @@ (IF rotatedAngle # <<>> /\ rotatedAngle[1] # <<>>
                THEN "rotatedAngle" :> parseFloat(rotatedAngle[1])
                ELSE NoProps)
            @@ (IF drawingType # <<>> /\ drawingType[1] # ""
                THEN "drawingType" :> drawingType[1]
                ELSE NoProps)
            @@ (IF sweepDirection # <<>> /\ sweepDirection[1] # <<>>
                THEN "sweepDirection" :> sweepDirection[1]
                ELSE NoProps)
            @@ ("isClosed" :> (getAttribute(elem, "IsClosed") = <<"true">>))
            @@ ("isCurveClosed" :>
                    (getAttribute(elem, "IsCurveClosed") = <<"true">>))
            @@ (IF textContent # <<>> /\ textContent[1] # ""
                THEN "drawingAdjustments" :> textContent[1]
                ELSE NoProps)
            @@ ("isActive" :> (getAttribute(elem, "IsActive") # <<"false">>))

(* DrawingXMLSerializer.serialize *)
serializeXml(drawing) == toXmlElement(toLegacy(drawing), drawing.id)

(* DrawingXMLSerializer.deserialize; an Id attribute that is missing is     *)
(* replaced by a generated id                                               *)
deserializeXml(xml, generated) ==
    fromLegacy(fromXmlElement(xml), getAttribute(xml, "Id"), generated)

----------------------------------------------------------------------------
(* Batch operations. A JavaScript array is the sequence of its elements; an *)
(* element that is null is Null, any other element o is Some(o). A call     *)
(* either returns a value or throws.                                        *)

(* An id the template string of fromLegacy can give *)
GeneratedId == 77

Thrown == [threw |-> TRUE, value |-> <<>>]
Returned(value) == [threw |-> FALSE, value |-> value]

(* the id `drawing-${index}` that fromLegacyBatch gives the record at index *)
DrawingIdBase == 1000
DrawingId(index) == DrawingIdBase + index

(* fromLegacy reads legacy.footX first and toLegacy reads                   *)
(* drawing.properties.buildingId first: on null the read is a TypeError     *)
fromLegacyThrows(legacy) == IsNull(legacy)
toLegacyThrows(drawing) == IsNull(drawing)

(* LegacyBatchProcessor.fromLegacyBatch: Array.map, with nothing caught     *)
fromLegacyBatch(legacyObjects) ==
    IF \E index \in DOMAIN legacyObjects : fromLegacyThrows(legacyObjects[index])
    THEN Thrown
    ELSE Returned([index \in DOMAIN legacyObjects |->
                     fromLegacy(legacyObjects[index][1],
                                <<DrawingId(index - 1)>>, GeneratedId)])

(* LegacyBatchProcessor.toLegacyBatch *)
toLegacyBatch(drawings) ==
    IF \E index \in DOMAIN drawings : toLegacyThrows(drawings[index])
    THEN Thrown
    ELSE Returned([index \in DOMAIN drawings |-> toLegacy(drawings[index][1])])

(* DrawingJSONSerializer.serializeArray; the text of an array is the        *)
(* sequence of the texts of its elements                                    *)
serializeArray(drawings) ==
    LET legacyArray == toLegacyBatch(drawings)
    IN  IF legacyArray.threw THEN Thrown
        ELSE Returned([index \in DOMAIN legacyArray.value |->
                         Some(JSONStringify(legacyArray.value[index]))])

(* DrawingJSONSerializer.deserializeArray: what is caught is thrown again   *)
deserializeArray(json) ==
    LET array == [index \in DOMAIN json |->
                    IF IsNull(json[index]) THEN Null
                    ELSE Some(JSONParse(json[index][1]))]
    IN  fromLegacyBatch(array)

(* DrawingXMLSerializer.serializeArray *)
serializeXmlArray(drawings) ==
    IF \E index \in DOMAIN drawings : toLegacyThrows(drawings[index])
    THEN Thrown
    ELSE Returned([index \in DOMAIN drawings |->
                     Some(toXmlElement(toLegacy(drawings[index][1]),
                                       drawings[index][1].id))])

(* DOMParser.parseFromString(xml, 'text/xml') on a BuildingDrawings         *)
(* collection: xml is the sequence of its BuildingDrawing elements, Null    *)
(* standing for markup that is not well formed; the document of a text      *)
(* that is not well formed holds a parsererror element                      *)
hasParserError(xml) == \E index \in DOMAIN xml : IsNull(xml[index])

(* DrawingXMLSerializer.deserializeArray *)
deserializeXmlArray(xml) ==
    IF hasParserError(xml)
    THEN Thrown
    ELSE Returned([index \in DOMAIN xml |->
                     deserializeXml(xml[index][1], GeneratedId)])

----------------------------------------------------------------------------
(* Full canvas state, hierarchical format. buildingId and buildingContext   *)
(* are undefined in a state of the hook and are left out by JSON.stringify; *)
(* the timestamp is not read back.                                          *)

(* DrawingJSONSerializer.serializeCanvasState *)
serializeCanvasState(state) ==
    LET objects == toLegacyBatch([index \in DOMAIN state.objects |->
                                     Some(state.objects[index])])
    IN  [objects |-> [index \in DOMAIN objects.value |->
                         JSONStringify(objects.value[index])],
         currentObject |-> IF IsNull(state.currentObject) THEN Null
                           ELSE Some(JSONStringify(
                                         toLegacy(state.currentObject[1]))),
         selectedId |-> state.selectedId]

(* DrawingJSONSerializer.deserializeCanvasState *)
deserializeCanvasState(json) ==
    LET data == json
        objects == fromLegacyBatch([index \in DOMAIN data.objects |->
                                      Some(JSONParse(data.objects[index]))])
    IN  IF objects.threw THEN Thrown
        ELSE Returned(CanvasState(
                 objects.value,
                 IF IsNull(data.currentObject) THEN Null
                 ELSE Some(fromLegacy(JSONParse(data.currentObject[1]),
                                      <<>>, GeneratedId)),
                 data.selectedId))

----------------------------------------------------------------------------
(* The hook *)

(* no stateless function is being called *)
NoCall == [fn |-> "none", args |-> <<>>, result |-> <<>>, done |-> FALSE]

(* the hook after construction *)
HookInit ==
    /\ historyRef = History(<<>>, EmptyCanvas, <<>>)
    /\ history = History(<<>>, EmptyCanvas, <<>>)
    /\ canvasStateRef = Flatten(History(<<>>, EmptyCanvas, <<>>))
    /\ modeRef = NoMode
    /\ idCounter = 0
    /\ lastOp = "none"
    /\ changed = FALSE
    /\ rejectedId = NoId
    /\ loaded = NoEnvelope
    /\ steps = 0

Init == HookInit /\ call = NoCall

(* One more command is issued *)
Issue(tag) ==
    /\ steps < MaxSteps
    /\ steps' = steps + 1
    /\ lastOp' = tag
    /\ UNCHANGED call

(* setHistoryAndRef(next): the ref, the mirror object and the React state *)
setHistoryAndRef(next) ==
    /\ historyRef' = next
    /\ canvasStateRef' = Flatten(next)
    /\ history' = next
    /\ changed' = (next # historyRef)

(* generateId(), assumed never to repeat an id *)
generateId == idCounter + 1

setMode ==
    \E m \in DrawingModes \cup {NoMode} :
        /\ Issue("setMode")
        /\ modeRef' = m
        /\ changed' = FALSE
        /\ UNCHANGED <<historyRef, history, canvasStateRef, idCounter, rejectedId,
                       loaded>>

addPoint ==
    \E point \in PointInputs :
        /\ Issue("addPoint")
        /\ setHistoryAndRef(addPointUpdater(historyRef, point, modeRef, generateId))
        /\ idCounter' = IF IsNull(historyRef.present.currentObject)
                        THEN idCounter + 1
                        ELSE idCounter
        /\ UNCHANGED <<modeRef, rejectedId, loaded>>

completeObject ==
    /\ Issue(IF CompletionValid(historyRef)
             THEN "completeObject:created"
             ELSE "completeObject:rejected")
    /\ setHistoryAndRef(completeObjectUpdater(historyRef))
    /\ rejectedId' = IF ~CompletionValid(historyRef)
                         /\ ~IsNull(historyRef.present.currentObject)
                      THEN historyRef.present.currentObject[1].id
                      ELSE rejectedId
    /\ UNCHANGED <<modeRef, idCounter, loaded>>

updateCurrentObjectPoints ==
    \E newPoints \in PointListInputs :
        /\ Issue("updateCurrentObjectPoints")
        /\ setHistoryAndRef(updateCurrentObjectPointsUpdater(historyRef, newPoints))
        /\ UNCHANGED <<modeRef, idCounter, rejectedId, loaded>>

cancelObject ==
    /\ Issue("cancelObject")
    /\ setHistoryAndRef(cancelObjectUpdater(historyRef))
    /\ UNCHANGED <<modeRef, idCounter, rejectedId, loaded>>

clearCanvas ==
    /\ Issue("clearCanvas")
    /\ setHistoryAndRef(clearCanvasUpdater(historyRef))
    /\ UNCHANGED <<modeRef, idCounter, rejectedId, loaded>>

(* loadDrawing(data), which calls loadState on either accepted form *)
loadDrawing ==
    \E data \in EnvelopeInputs :
        /\ IF data.version = "2.0" /\ data.canvasState # <<>>
           THEN /\ Issue("loadDrawing:true")
                /\ setHistoryAndRef(loadStateUpdater(data.canvasState[1]))
           ELSE IF data.objects # <<>>
                THEN /\ Issue("loadDrawing:true")
                     /\ setHistoryAndRef(loadStateUpdater(
                            CanvasState(data.objects[1], Null, NoId)))
                ELSE /\ Issue("loadDrawing:false")
                     /\ changed' = FALSE
                     /\ UNCHANGED <<historyRef, history, canvasStateRef>>
        /\ loaded' = data
        /\ UNCHANGED <<modeRef, idCounter, rejectedId>>

deleteObject ==
    \E id \in IdInputs :
        /\ Issue("deleteObject")
        /\ setHistoryAndRef(deleteObjectUpdater(historyRef, id))
        /\ UNCHANGED <<modeRef, idCounter, rejectedId, loaded>>

selectObject ==
    \E id \in SelectInputs :
        /\ Issue("selectObject")
        /\ setHistoryAndRef(selectObjectUpdater(historyRef, id))
        /\ UNCHANGED <<modeRef, idCounter, rejectedId, loaded>>

updateObjectPointsById ==
    \E id \in IdInputs, newPoints \in ResizeInputs :
        /\ Issue("updateObjectPointsById")
        /\ setHistoryAndRef(updateObjectPointsByIdUpdater(historyRef, id, newPoints))
        /\ UNCHANGED <<modeRef, idCounter, rejectedId, loaded>>

moveObjectByDelta ==
    \E id \in IdInputs, d \in DeltaInputs :
        /\ Issue("moveObjectByDelta")
        /\ setHistoryAndRef(moveObjectByDeltaUpdater(historyRef, id, d.x, d.y))
        /\ UNCHANGED <<modeRef, idCounter, rejectedId, loaded>>

undo ==
    /\ Issue("undo")
    /\ setHistoryAndRef(undoUpdater(historyRef))
    /\ UNCHANGED <<modeRef, idCounter, rejectedId, loaded>>

redo ==
    /\ Issue("redo")
    /\ setHistoryAndRef(redoUpdater(historyRef))
    /\ UNCHANGED <<modeRef, idCounter, rejectedId, loaded>>

(* the one command that calls setHistory instead of setHistoryAndRef *)
updateCurrentObjectProperties ==
    \E props \in PropInputs :
        /\ Issue("updateCurrentObjectProperties")
        /\ history' = updateCurrentObjectPropertiesUpdater(history, props)
        /\ changed' = FALSE
        /\ UNCHANGED <<historyRef, canvasStateRef, modeRef, idCounter, rejectedId,
                       loaded>>

updateSelectedObjectProperties ==
    \E props \in PropInputs :
        /\ Issue("updateSelectedObjectProperties")
        /\ setHistoryAndRef(updateSelectedObjectPropertiesUpdater(historyRef, props))
        /\ UNCHANGED <<modeRef, idCounter, rejectedId, loaded>>

Next ==
    \/ setMode
    \/ addPoint
    \/ completeObject
    \/ updateCurrentObjectPoints
    \/ cancelObject
    \/ clearCanvas
    \/ loadDrawing
    \/ deleteObject
    \/ selectObject
    \/ updateObjectPointsById
    \/ moveObjectByDelta
    \/ undo
    \/ redo
    \/ updateCurrentObjectProperties
    \/ updateSelectedObjectProperties

Spec == Init /\ [][Next]_vars

----------------------------------------------------------------------------
(* The stateless functions: a call is drawn with its arguments, and the     *)
(* function is applied to them                                              *)

Call(fn, args) == [fn |-> fn, args |-> args, result |-> <<>>, done |-> FALSE]

(* the call returns result *)
Returns(fn, result) ==
    /\ call.fn = fn
    /\ ~call.done
    /\ call' = [call EXCEPT !.result = result, !.done = TRUE]
    /\ UNCHANGED hookVars

(* Declared and computed areas offered to the sqft checks, in square feet;  *)
(* the declared area may be left out                                        *)
LegacySqftInputs == {Undefined, Num(0), Num(100), Num(1000)}
CalculatedSqftInputs ==
    {Num(0), Num(95), Num(100), Num(105), Num(106), Num(115), Num(130),
     Num(1010), Num(1300)}
ToleranceInputs == {DefaultTolerance, Frac(1, 10)}

SqftCallInputs ==
    {Call(fn, [legacySqft |-> l, calculatedSqft |-> c, tolerance |-> t]) :
        fn \in {"reconcile", "validateSqft"}, l \in LegacySqftInputs,
        c \in CalculatedSqftInputs, t \in ToleranceInputs}

(* Mode tags and legacy type names offered to the type mapper: the ones it  *)
(* knows, and others                                                        *)
ModeInputs ==
    DrawingModes \cup {NoMode, "unknown", "centerView", "constructor"}

LegacyTypeInputs ==
    DOMAIN fromLegacyTypeMapping
        \cup {"Unknown", "", "freehand", "Polygon", "toString"}

TypeCallInputs ==
    {Call("toLegacyType", [mode |-> m]) : m \in ModeInputs}
        \cup {Call("fromLegacyType", [legacyType |-> n]) : n \in LegacyTypeInputs}

(* Shapes offered to the serializers: what completeObject makes of each    *)
(* mode with the point lists the hook is driven with                        *)
InProgressInputs ==
    {[id |-> 1, type |-> type, points |-> points, properties |-> NoProps] :
        type \in DrawingModes, points \in PointListInputs}

ShapeInputs ==
    {completedObject(cur) :
        cur \in {c \in InProgressInputs :
                    validatePointsForMode(c.type, Len(c.points))}}

JsonCallInputs ==
    {Call("serialize", [drawing |-> d]) : d \in ShapeInputs}
        \cup {Call("deserialize", [json |-> serialize(d)]) : d \in ShapeInputs}

XmlCallInputs ==
    {Call("serializeXml", [drawing |-> d]) : d \in ShapeInputs}
        \cup {Call("deserializeXml", [xml |-> serializeXml(d)]) :
                 d \in ShapeInputs}

(* Sweep directions offered to the type mapper: left out, the empty        *)
(* string, the two legacy values and the two normalized values in several   *)
(* letter cases, and values that name no direction                          *)
LegacyClockwiseChars == <<"C">> \o Tail(ClockwiseChars)
LegacyCounterClockwiseChars ==
    <<"C", "o", "u", "n", "t", "e", "r">> \o LegacyClockwiseChars

ToUpperCase(chars) ==
    LET upper == <<"C", "L", "O", "K", "W", "I", "S", "E", "U", "N", "T", "R">>
        lower == <<"c", "l", "o", "k", "w", "i", "s", "e", "u", "n", "t", "r">>
    IN  [i \in 1..Len(chars) |->
            IF \E u \in 1..Len(lower) : lower[u] = chars[i]
            THEN upper[CHOOSE u \in 1..Len(lower) : lower[u] = chars[i]]
            ELSE chars[i]]

SweepDirectionInputs ==
    {<<>>, <<<<>>>>,
     <<LegacyClockwiseChars>>, <<LegacyCounterClockwiseChars>>,
     <<ClockwiseChars>>, <<CounterclockwiseChars>>,
     <<ToUpperCase(ClockwiseChars)>>, <<ToUpperCase(CounterclockwiseChars)>>,
     <<<<"c", "c", "w">>>>, <<<<"l", "e", "f", "t">>>>}

SweepCallInputs ==
    {Call("normalizeSweepDirection", [direction |-> d]) :
        d \in SweepDirectionInputs}

(* Lists offered to the batch operations: up to MaxBatch elements, each a   *)
(* completed shape or its encoding, or null (in a markup collection, an     *)
(* element that is not well formed)                                         *)
MaxBatch == 3

ListsOf(elements) == UNION {[1..n -> elements] : n \in 0..MaxBatch}

BatchShapeInputs ==
    {d \in ShapeInputs :
        \/ d.type = "rectangle" /\ d.points = <<Pt(0, 0), Pt(4, 3)>>
        \/ d.type = "straightLine" /\ d.points = <<Pt(0, 0), Pt(3, 4)>>}

BatchCallInputs ==
    {Call(fn, [drawings |-> l]) :
        fn \in {"toLegacyBatch", "serializeArray", "serializeXmlArray"},
        l \in ListsOf({Null} \cup {Some(d) : d \in BatchShapeInputs})}
    \cup {Call("fromLegacyBatch", [legacyObjects |-> l]) :
            l \in ListsOf({Null} \cup {Some(toLegacy(d)) : d \in BatchShapeInputs})}
    \cup {Call("deserializeArray", [json |-> l]) :
            l \in ListsOf({Null} \cup {Some(serialize(d)) : d \in BatchShapeInputs})}
    \cup {Call("deserializeXmlArray", [xml |-> l]) :
            l \in ListsOf({Null}
                            \cup {Some(serializeXml(d)) : d \in BatchShapeInputs})}

(* Numbers of feet offered to the precision converter: the hundredths up to *)
(* MaxFeetHundredths on both sides of zero, and thousandths next to a half  *)
(* and to the quarters                                                      *)
MaxFeetHundredths == 150

FeetValueInputs ==
    {Frac(n, 100) : n \in (-MaxFeetHundredths)..MaxFeetHundredths}
        \cup {Frac(n, 1000) : n \in {2504, 2255, 2745, -1496, -509, 241}}

(* Legacy texts offered to it: decimal and mixed-fraction notation, and     *)
(* texts that hold no number                                                *)
FeetTextInputs ==
    {<<"1", "2", "3", ".", "4", "5">>, <<"1", "2", "3", " ", "1", "/", "2">>,
     <<"0", ".", "5">>, <<"-", "3", " ", "1", "/", "2">>,
     <<"1", "2", " ">>, <<"1", "2", " ", "1", "/", "0">>,
     <<"1", "2", " ", "a", "b", "c">>, <<"7", "f", "t">>,
     <<>>, <<" ">>, <<" ", " ">>, <<"a", "b", "c">>, <<"/">>, <<" ", "/">>,
     <<"x", " ", "y", "/", "z">>, <<"-">>, <<".">>, <<"N", "a", "N">>}

FeetCallInputs ==
    {Call("toLegacyFeetString", [value |-> v, useFraction |-> f]) :
        v \in FeetValueInputs, f \in BOOLEAN}
    \cup {Call("fromLegacyFeetString", [value |-> Str(t)]) : t \in FeetTextInputs}
    \cup {Call("fromLegacyFeetString", [value |-> v]) :
            v \in {Undefined, Num(12), Frac(-5, 2)}}

(* Legacy records offered to the import: a type name or none, position      *)
(* fields in decimal notation, in text that holds no number, or left out,   *)
(* and some of the endpoint pairs and arc-field pairs                       *)
RecordTypeInputs ==
    {<<>>, <<"Line">>, <<"StraightLine">>, <<"OrthoLine">>, <<"Circle">>,
     <<"Curve">>, <<"Rectangle">>, <<"FreeHand">>}

PositionInputs ==
    {NoProps,
     "footX" :> Str(<<"3">>) @@ "footY" :> Str(<<"4", ".", "5">>),
     "footX" :> Str(<<"a", "b", "c">>)}

LinePairInputs ==
    {NoProps,
     "lineFootX1" :> 1 @@ "lineFootY1" :> 2,
     "lineFootX2" :> 5 @@ "lineFootY2" :> 6,
     "lineFootX1" :> 1 @@ "lineFootY1" :> 2
        @@ "lineFootX2" :> 5 @@ "lineFootY2" :> 6,
     "lineFootX1" :> 1 @@ "lineFootX2" :> 5 @@ "lineFootY2" :> 6}

ArcPairInputs ==
    {NoProps,
     "arcStartFootX" :> 1 @@ "arcStartFootY" :> 2,
     "arcStartFootX" :> 1 @@ "arcStartFootY" :> 2
        @@ "arcPointFootX" :> 3 @@ "arcPointFootY" :> 4,
     "arcStartFootX" :> 1 @@ "arcStartFootY" :> 2
        @@ "arcPointFootX" :> 3 @@ "arcPointFootY" :> 4
        @@ "arcMouseEndFootX" :> 5 @@ "arcMouseEndFootY" :> 6,
     "arcMouseEndFootX" :> 5 @@ "arcMouseEndFootY" :> 6}

RecordInputs ==
    {With("drawingType", type) @@ position @@ line @@ arc :
        type \in RecordTypeInputs, position \in PositionInputs,
        line \in LinePairInputs, arc \in ArcPairInputs}

RecordCallInputs == {Call("fromLegacy", [legacy |-> r]) : r \in RecordInputs}

(* Canvas states offered to the full-state serializer: up to two completed  *)
(* shapes with the ids the hook gave them, one of them selected or none     *)
CanvasObjectsInputs ==
    {<<>>}
        \cup {<<[a EXCEPT !.id = 1]>> : a \in BatchShapeInputs}
        \cup {<<[a EXCEPT !.id = 1], [b EXCEPT !.id = 2]>> :
                 a \in BatchShapeInputs, b \in BatchShapeInputs}

CanvasStateInputs ==
    {s \in {CanvasState(objects, Null, selectedId) :
                objects \in CanvasObjectsInputs, selectedId \in {NoId, 1, 2}} :
        s.selectedId \in LiveIds(s) \cup {NoId}}

CanvasCallInputs ==
    {Call("serializeCanvasState", [state |-> s]) : s \in CanvasStateInputs}
        \cup {Call("deserializeCanvasState", [json |-> serializeCanvasState(s)]) :
                 s \in CanvasStateInputs}

CallInputs ==
    SqftCallInputs \cup TypeCallInputs \cup JsonCallInputs \cup XmlCallInputs
        \cup SweepCallInputs \cup BatchCallInputs \cup FeetCallInputs
        \cup RecordCallInputs \cup CanvasCallInputs

reconcileCall ==
    Returns("reconcile",
            reconcile(call.args.legacySqft, call.args.calculatedSqft,
                      call.args.tolerance))

validateSqftCall ==
    Returns("validateSqft",
            validateSqft(call.args.calculatedSqft, call.args.legacySqft,
                         call.args.tolerance))

toLegacyTypeCall ==
    Returns("toLegacyType", toLegacyType(call.args.mode))

fromLegacyTypeCall ==
    Returns("fromLegacyType", fromLegacyType(call.args.legacyType))

serializeCall ==
    Returns("serialize", serialize(call.args.drawing))

deserializeCall ==
    Returns("deserialize", deserialize(call.args.json, GeneratedId))

serializeXmlCall ==
    Returns("serializeXml", serializeXml(call.args.drawing))

deserializeXmlCall ==
    Returns("deserializeXml", deserializeXml(call.args.xml, GeneratedId))

normalizeSweepDirectionCall ==
    Returns("normalizeSweepDirection",
            normalizeSweepDirection(call.args.direction))

fromLegacyBatchCall ==
    Returns("fromLegacyBatch", fromLegacyBatch(call.args.legacyObjects))

toLegacyBatchCall ==
    Returns("toLegacyBatch", toLegacyBatch(call.args.drawings))

serializeArrayCall ==
    Returns("serializeArray", serializeArray(call.args.drawings))

deserializeArrayCall ==
    Returns("deserializeArray", deserializeArray(call.args.json))

serializeXmlArrayCall ==
    Returns("serializeXmlArray", serializeXmlArray(call.args.drawings))

deserializeXmlArrayCall ==
    Returns("deserializeXmlArray", deserializeXmlArray(call.args.xml))

toLegacyFeetStringCall ==
    Returns("toLegacyFeetString",
            toLegacyFeetString(call.args.value, call.args.useFraction))

fromLegacyFeetStringCall ==
    Returns("fromLegacyFeetString", fromLegacyFeetString(call.args.value))

fromLegacyCall ==
    Returns("fromLegacy", fromLegacy(call.args.legacy, <<>>, GeneratedId))

serializeCanvasStateCall ==
    Returns("serializeCanvasState", serializeCanvasState(call.args.state))

deserializeCanvasStateCall ==
    Returns("deserializeCanvasState", deserializeCanvasState(call.args.json))

PureInit == HookInit /\ call \in CallInputs

PureNext ==
    \/ reconcileCall
    \/ validateSqftCall
    \/ toLegacyTypeCall
    \/ fromLegacyTypeCall
    \/ serializeCall
    \/ deserializeCall
    \/ serializeXmlCall
    \/ deserializeXmlCall
    \/ normalizeSweepDirectionCall
    \/ fromLegacyBatchCall
    \/ toLegacyBatchCall
    \/ serializeArrayCall
    \/ deserializeArrayCall
    \/ serializeXmlArrayCall
    \/ deserializeXmlArrayCall
    \/ toLegacyFeetStringCall
    \/ fromLegacyFeetStringCall
    \/ fromLegacyCall
    \/ serializeCanvasStateCall
    \/ deserializeCanvasStateCall

PureSpec == PureInit /\ [][PureNext]_vars

----------------------------------------------------------------------------
(* Vocabulary of the properties *)

(* this step issues the command logged as tag *)
Issues(tag) == steps' = steps + 1 /\ lastOp' = tag

(* this step pushes present onto past and clears future *)
Pushes ==
    /\ historyRef'.past = Append(historyRef.past, historyRef.present)
    /\ historyRef'.future = <<>>

(* the per-mode minimum the specification states *)
ModeMinimum(type) == IF type = "curve" THEN 3 ELSE 2

RemoveAt(s, i) == SubSeq(s, 1, i - 1) \o SubSeq(s, i + 1, Len(s))

AlwaysCommitted ==
    {"completeObject:created", "deleteObject", "clearCanvas",
     "moveObjectByDelta", "updateObjectPointsById"}

----------------------------------------------------------------------------
(* C1, as stated: every committed mutating command - completeShape when it *)
(* succeeds, deleteShape, clearCanvas, moveShapeBy, resizeShape and         *)
(* updateShapeProperties - appends the old present to past and empties      *)
(* future.                                                                  *)
C1_EveryCommandPushes ==
    [][\A tag \in AlwaysCommitted \cup {"updateSelectedObjectProperties"} :
          Issues(tag) => Pushes]_vars

(* C1, amended: completeShape when it succeeds, deleteShape, clearCanvas,   *)
(* moveShapeBy and resizeShape always append the old present to past (past  *)
(* grows by exactly one) and empty future; updateShapeProperties does so    *)
(* when a shape is selected, and changes nothing when none is.              *)
C1_CommittedCommandPushes ==
    [][/\ \A tag \in AlwaysCommitted :
            Issues(tag) =>
                Pushes /\ Len(historyRef'.past) = Len(historyRef.past) + 1
       /\ Issues("updateSelectedObjectProperties") =>
            IF historyRef.present.selectedId # NoId
            THEN Pushes /\ Len(historyRef'.past) = Len(historyRef.past) + 1
            ELSE historyRef' = historyRef]_vars

(* a property update of the selected shape was committed *)
C1_Witness ==
    /\ lastOp = "updateSelectedObjectProperties"
    /\ changed
    /\ historyRef.present.selectedId # NoId
    /\ Len(historyRef.past) >= 1
    /\ historyRef.future = <<>>
    /\ \E i \in 1..Len(historyRef.present.objects) :
          "color" \in DOMAIN historyRef.present.objects[i].properties

(* C2: from any state in which completeShape succeeds, undo gives back the  *)
(* objects and the in-progress shape (with its points) of before the        *)
(* completion, and a following redo gives back exactly the history the      *)
(* completion produced.                                                     *)
C2_UndoRedoAfterComplete ==
    CompletionValid(historyRef) =>
        LET h1 == completeObjectUpdater(historyRef)
            h2 == undoUpdater(h1)
            h3 == redoUpdater(h2)
        IN  /\ h2.present.objects = historyRef.present.objects
            /\ h2.present.currentObject = historyRef.present.currentObject
            /\ h3 = h1

(* a redo has just restored the state a completion had produced *)
C2_Witness ==
    /\ lastOp = "redo"
    /\ changed
    /\ Len(historyRef.past) >= 1
    /\ CompletionValid(undoUpdater(historyRef))
    /\ completeObjectUpdater(undoUpdater(historyRef)) = historyRef

(* C3: completeShape with no in-progress shape, or with fewer points than   *)
(* the mode's minimum (3 for curve, 2 otherwise), changes nothing in the    *)
(* reported state; with the minimum reached it appends exactly one shape,   *)
(* the in-progress one.                                                     *)
C3_RejectedCompletionIsNoOp ==
    [][(Issues("completeObject:created") \/ Issues("completeObject:rejected")) =>
          LET cur == historyRef.present.currentObject
          IN  IF IsNull(cur) \/ Len(cur[1].points) < ModeMinimum(cur[1].type)
              THEN /\ historyRef' = historyRef
                   /\ canvasStateRef' = canvasStateRef
                   /\ Issues("completeObject:rejected")
              ELSE /\ Len(historyRef'.present.objects)
                          = Len(historyRef.present.objects) + 1
                   /\ SubSeq(historyRef'.present.objects, 1,
                             Len(historyRef.present.objects))
                          = historyRef.present.objects
                   /\ historyRef'.present.objects[
                          Len(historyRef'.present.objects)].id = cur[1].id
                   /\ IsNull(historyRef'.present.currentObject)
                   /\ Issues("completeObject:created")]_vars

(* the shape just completed had been rejected before, for too few points *)
C3_Witness ==
    /\ lastOp = "completeObject:created"
    /\ Len(historyRef.present.objects) >= 1
    /\ historyRef.present.objects[Len(historyRef.present.objects)].id
          = rejectedId

(* C4: selectedId is absent or is the id of a shape in objects.             *)
C4_SelectedIdIsLive ==
    \/ historyRef.present.selectedId = NoId
    \/ historyRef.present.selectedId \in LiveIds(historyRef.present)

(* C5: selectShape changes only selectedId: past, future, objects and the   *)
(* in-progress shape stay, and so do canUndo and canRedo.                   *)
C5_SelectionChangesOnlySelectedId ==
    [][Issues("selectObject") =>
          /\ historyRef'.past = historyRef.past
          /\ historyRef'.future = historyRef.future
          /\ historyRef'.present.objects = historyRef.present.objects
          /\ historyRef'.present.currentObject
                = historyRef.present.currentObject
          /\ canUndo' = canUndo
          /\ canRedo' = canRedo]_vars

(* C6: cancelShape sets the in-progress shape to none and leaves objects,   *)
(* selectedId, past and future as they were.                                *)
C6_CancelTouchesOnlyInProgress ==
    [][Issues("cancelObject") =>
          /\ IsNull(historyRef'.present.currentObject)
          /\ historyRef'.present.objects = historyRef.present.objects
          /\ historyRef'.present.selectedId = historyRef.present.selectedId
          /\ historyRef'.past = historyRef.past
          /\ historyRef'.future = historyRef.future]_vars

(* an in-progress shape was cancelled while there was something to redo *)
C6_Witness ==
    /\ lastOp = "cancelObject"
    /\ changed
    /\ Len(historyRef.future) >= 1
    /\ Len(historyRef.present.objects) >= 1

(* C7, as stated: every command other than selectShape, undo and redo that  *)
(* changes the canvas state - addPoint, the in-progress point updates and   *)
(* cancelShape included - leaves the future stack empty.                    *)
C7_EveryChangeClearsFuture ==
    [][(/\ steps' = steps + 1
        /\ lastOp' \notin {"selectObject", "undo", "redo"}
        /\ historyRef' # historyRef)
          => historyRef'.future = <<>>]_vars

(* C7, amended: the committed commands (completeShape when it succeeds,     *)
(* deleteShape, clearCanvas, moveShapeBy, resizeShape, updateShapeProperties*)
(* with a shape selected) leave the future stack empty; addPoint, the       *)
(* in-progress point updates and cancelShape leave it as it was.            *)
C7_OnlyCommittedClearFuture ==
    [][/\ \A tag \in AlwaysCommitted :
            Issues(tag) => historyRef'.future = <<>>
       /\ (Issues("updateSelectedObjectProperties")
              /\ historyRef.present.selectedId # NoId)
            => historyRef'.future = <<>>
       /\ \A tag \in {"addPoint", "updateCurrentObjectPoints", "cancelObject"} :
            Issues(tag) => historyRef'.future = historyRef.future]_vars

(* a point was added after an undo, and redo is still available *)
C7_Witness ==
    /\ lastOp = "addPoint"
    /\ changed
    /\ Len(historyRef.future) >= 1
    /\ Len(canvasStateRef.future) >= 1
    /\ canRedo

(* C8: deleteShape(id) of a shape of objects removes exactly that shape and *)
(* keeps the others in order; a following undo restores the identical       *)
(* sequence.                                                                *)
C8_DeleteThenUndo ==
    \A i \in 1..Len(historyRef.present.objects) :
        LET objects == historyRef.present.objects
            h1 == deleteObjectUpdater(historyRef, objects[i].id)
        IN  /\ h1.present.objects = RemoveAt(objects, i)
            /\ undoUpdater(h1).present.objects = objects
            /\ undoUpdater(h1).present = historyRef.present

(* an undo has just brought back a shape deleted from the middle *)
C8_Witness ==
    /\ lastOp = "undo"
    /\ changed
    /\ Len(historyRef.future) >= 1
    /\ \E i \in 2..(Len(historyRef.present.objects) - 1) :
          /\ historyRef.future[1].objects
                = RemoveAt(historyRef.present.objects, i)
          /\ historyRef.future[1]
                = deleteObjectUpdater(historyRef,
                      historyRef.present.objects[i].id).present

(* C9, as stated: a completion succeeds only with exactly 3 points for a    *)
(* curve and exactly 2 for every other mode, so an appended curve has 3     *)
(* points and any other appended shape 2.                                   *)
C9_ExactPointCount ==
    [][Issues("completeObject:created") =>
          LET appended == historyRef'.present.objects[
                              Len(historyRef'.present.objects)]
          IN  Len(appended.points) = ModeMinimum(appended.type)]_vars

(* C9, amended: a completion succeeds only with at least 3 points for a     *)
(* curve and at least 2 for every other mode, so an appended curve has at   *)
(* least 3 points and any other appended shape at least 2 - the points of   *)
(* the in-progress shape, however many.                                     *)
C9_AtLeastMinimumPointCount ==
    [][Issues("completeObject:created") =>
          LET cur == historyRef.present.currentObject
              appended == historyRef'.present.objects[
                              Len(historyRef'.present.objects)]
          IN  /\ ~IsNull(cur)
              /\ Len(cur[1].points) >= ModeMinimum(cur[1].type)
              /\ appended.type = cur[1].type
              /\ appended.points = cur[1].points
              /\ Len(appended.points) >= ModeMinimum(appended.type)]_vars

(* a shape of a mode other than curve was completed with 3 points *)
C9_Witness ==
    /\ lastOp = "completeObject:created"
    /\ changed
    /\ Len(historyRef.present.objects) >= 1
    /\ LET appended == historyRef.present.objects[
                           Len(historyRef.present.objects)]
       IN  appended.type # "curve" /\ Len(appended.points) = 3

(* C10: undo with an empty past and redo with an empty future leave past,   *)
(* present and future unchanged.                                            *)
C10_EmptyUndoRedoIsNoOp ==
    [][/\ (Issues("undo") /\ Len(historyRef.past) = 0) =>
            historyRef' = historyRef /\ canvasStateRef' = canvasStateRef
       /\ (Issues("redo") /\ Len(historyRef.future) = 0) =>
            historyRef' = historyRef /\ canvasStateRef' = canvasStateRef]_vars

(* undo was called on a drawn canvas whose past is empty *)
C10_Witness ==
    /\ lastOp = "undo"
    /\ ~changed
    /\ historyRef.past = <<>>
    /\ Len(historyRef.present.objects) >= 1

(* C11: after any sequence of commands, updateInProgressProperties          *)
(* included, canUndo is true exactly when the past stack of the state       *)
(* currentState() reports is non-empty and canRedo exactly when its future  *)
(* stack is non-empty: the history behind the queries and the history       *)
(* behind currentState() never diverge.                                     *)
C11_QueriesMatchReportedHistory ==
    /\ canUndo <=> Len(canvasStateRef.past) > 0
    /\ canRedo <=> Len(canvasStateRef.future) > 0
    /\ history = historyRef

(* currentState(): the hook hands out canvasStateRef.current itself, the   *)
(* one object setHistoryAndRef writes into; a value obtained earlier is     *)
(* that same object, so what is seen through it is its content now          *)
currentState == canvasStateRef

(* C12: a state value obtained from currentState() is an immutable          *)
(* snapshot: no later command changes the objects, in-progress shape,       *)
(* selectedId, past or future seen through a value obtained before it.      *)
C12_ObtainedStateIsImmutable ==
    [][/\ currentState'.objects = currentState.objects
       /\ currentState'.currentObject = currentState.currentObject
       /\ currentState'.selectedId = currentState.selectedId
       /\ currentState'.past = currentState.past
       /\ currentState'.future = currentState.future]_vars

(* the envelope has the full-state form: version 2.0 with a canvas state *)
IsFullStateEnvelope(data) == data.version = "2.0" /\ data.canvasState # <<>>

(* the envelope carries only a bare objects array *)
IsBareObjectsEnvelope(data) == data.canvasState = <<>> /\ data.objects # <<>>

(* C13: loading an envelope that carries only a bare objects array succeeds *)
(* and yields a present whose objects equal that array, with no in-progress *)
(* shape, no selection, and empty past and future (canUndo and canRedo both *)
(* false), whatever the history was before; an envelope matching neither    *)
(* accepted form is reported as a failure and leaves past, present and      *)
(* future unchanged.                                                        *)
C13_LoadBareObjectsOrFail ==
    [][/\ (steps' = steps + 1 /\ lastOp' \in {"loadDrawing:true", "loadDrawing:false"}
              /\ IsBareObjectsEnvelope(loaded'))
            => /\ lastOp' = "loadDrawing:true"
               /\ historyRef' = History(<<>>,
                      CanvasState(loaded'.objects[1], Null, NoId), <<>>)
               /\ currentState'.objects = loaded'.objects[1]
               /\ IsNull(currentState'.currentObject)
               /\ currentState'.selectedId = NoId
               /\ currentState'.past = <<>>
               /\ currentState'.future = <<>>
               /\ ~canUndo' /\ ~canRedo'
       /\ (steps' = steps + 1 /\ lastOp' \in {"loadDrawing:true", "loadDrawing:false"}
              /\ ~IsBareObjectsEnvelope(loaded')
              /\ ~IsFullStateEnvelope(loaded'))
            => /\ lastOp' = "loadDrawing:false"
               /\ historyRef' = historyRef
               /\ currentState' = currentState]_vars

(* a bare objects array was loaded, replacing the history, in a session in *)
(* which a shape had been begun                                             *)
C13_Witness ==
    /\ lastOp = "loadDrawing:true"
    /\ IsBareObjectsEnvelope(loaded)
    /\ changed
    /\ idCounter >= 1
    /\ historyRef.past = <<>>
    /\ ~canUndo
    /\ Len(historyRef.present.objects) = 3

(* the ids of the shapes of a canvas state are pairwise distinct and the    *)
(* id of its in-progress shape, if any, is the id of none of them           *)
UniqueIds(state) ==
    /\ \A i, j \in 1..Len(state.objects) :
          state.objects[i].id = state.objects[j].id => i = j
    /\ IsNull(state.currentObject)
          \/ state.currentObject[1].id \notin LiveIds(state)

(* C14: with an id generator that never returns an id already in use, in   *)
(* every reachable state the ids of the shapes in objects are pairwise      *)
(* distinct and the in-progress shape's id, if any, is not the id of any    *)
(* shape in objects - also after undo and redo replay snapshots.            *)
C14_IdsAreUnique ==
    /\ UniqueIds(historyRef.present)
    /\ UniqueIds(currentState)
    /\ \A i \in 1..Len(historyRef.past) : UniqueIds(historyRef.past[i])
    /\ \A i \in 1..Len(historyRef.future) : UniqueIds(historyRef.future[i])

(* an undo has put a completed shape back in progress beside two others *)
C14_Witness ==
    /\ lastOp = "undo"
    /\ changed
    /\ ~IsNull(historyRef.present.currentObject)
    /\ Len(historyRef.present.objects) >= 2
    /\ Len(historyRef.future) >= 1
    /\ historyRef.present.currentObject[1].id
          \in LiveIds(historyRef.future[1])

(* addPoint for each point of points in turn, under mode currentMode *)
RECURSIVE addPoints(_, _, _, _)
addPoints(prev, points, currentMode, newId) ==
    IF points = <<>>
    THEN prev
    ELSE addPoints(addPointUpdater(prev, Head(points), currentMode, newId),
                   Tail(points), currentMode, newId)

(* C15: points drawn under a newly selected mode never join a shape begun   *)
(* under a previous mode: after a rejected completion of a 1-point line, or *)
(* after an undo that restored an in-progress shape, selecting another      *)
(* mode, adding that mode's points and completing yields a completed shape  *)
(* tagged with the new mode and holding only the newly added points.        *)
C15_NewModeStartsFresh ==
    \A m \in DrawingModes, points \in PointListInputs :
        LET cur == historyRef.present.currentObject
            done == completeObjectUpdater(
                        addPoints(historyRef, points, m, generateId))
            last == done.present.objects[Len(done.present.objects)]
        IN  (/\ ~IsNull(cur)
             /\ \/ lastOp = "completeObject:rejected"
                      /\ cur[1].id = rejectedId
                      /\ cur[1].type = "straightLine"
                      /\ Len(cur[1].points) = 1
                \/ lastOp = "undo" /\ changed
             /\ m # cur[1].type
             /\ validatePointsForMode(m, Len(points)))
            => /\ Len(done.present.objects)
                    = Len(historyRef.present.objects) + 1
               /\ last.type = m
               /\ last.points = points

(* Deltas the move is examined with *)
MoveDeltas == {Pt(1, 2), Pt(-3, 0), Pt(0, -4)}

(* C16: moveShapeBy(id, dx, dy) adds (dx, dy) to every point of the shape   *)
(* with that id and changes nothing else in present: that shape's id, mode  *)
(* tag and property map, every other shape and its position in objects,     *)
(* the in-progress shape and selectedId are all unchanged.                  *)
C16_MoveShiftsOnlyThatShape ==
    \A i \in 1..Len(historyRef.present.objects), d \in MoveDeltas :
        LET before == historyRef.present
            after == moveObjectByDeltaUpdater(historyRef, before.objects[i].id,
                                              d.x, d.y).present
        IN  /\ Len(after.objects) = Len(before.objects)
            /\ Len(after.objects[i].points) = Len(before.objects[i].points)
            /\ \A k \in 1..Len(before.objects[i].points) :
                  /\ after.objects[i].points[k].x
                        = before.objects[i].points[k].x + d.x
                  /\ after.objects[i].points[k].y
                        = before.objects[i].points[k].y + d.y
            /\ after.objects[i].id = before.objects[i].id
            /\ after.objects[i].type = before.objects[i].type
            /\ after.objects[i].properties = before.objects[i].properties
            /\ \A j \in 1..Len(before.objects) :
                  j # i => after.objects[j] = before.objects[j]
            /\ after.currentObject = before.currentObject
            /\ after.selectedId = before.selectedId

(* one of two shapes was moved while another shape was in progress and a    *)
(* shape was selected                                                       *)
C16_Witness ==
    /\ lastOp = "moveObjectByDelta"
    /\ changed
    /\ Len(historyRef.past) >= 1
    /\ LET before == historyRef.past[Len(historyRef.past)]
           after == historyRef.present
       IN  /\ Len(after.objects) = 2
           /\ ~IsNull(after.currentObject)
           /\ after.selectedId # NoId
           /\ \E i \in 1..2, d \in DeltaInputs :
                 /\ after = moveObjectByDeltaUpdater(
                                History(<<>>, before, <<>>),
                                before.objects[i].id, d.x, d.y).present
                 /\ after.objects[i].points # before.objects[i].points
                 /\ after.objects[3 - i] = before.objects[3 - i]

(* the declared area of a sqft check is zero or was left out *)
NoDeclaredSqft(legacySqft) ==
    legacySqft.kind = "undefined"
        \/ (legacySqft.kind = "finite" /\ legacySqft.num = 0)

(* the number is 0 *)
IsZero(a) == a.kind = "finite" /\ a.num = 0

(* C17: reconcile(declared, computed, tolerance) with declared equal to     *)
(* zero or absent returns pass = true with zero absolute difference and     *)
(* zero relative difference, for every computed value; no division by zero  *)
(* takes place.                                                             *)
C17_ReconcileWithoutDeclaredPasses ==
    (call.fn = "reconcile" /\ call.done /\ NoDeclaredSqft(call.args.legacySqft))
        => /\ call.result.isValid
           /\ IsZero(call.result.difference)
           /\ IsZero(call.result.percentDifference)

(* C18: the mode-name mapping is a bijection between the eight internal     *)
(* modes and the legacy names it recognizes: fromLegacyType(toLegacyType(m))*)
(* = m for every internal mode m, and toLegacyType(fromLegacyType(n)) = n   *)
(* for every legacy name n that fromLegacyType recognizes; any other input  *)
(* maps to the sentinel (no mode / "Unknown").                              *)
C18_TypeMappingIsBijection ==
    /\ (call.fn = "toLegacyType" /\ call.done)
          => IF call.args.mode \in DrawingModes
             THEN fromLegacyType(call.result) = call.args.mode
             ELSE call.result = "Unknown"
    /\ (call.fn = "fromLegacyType" /\ call.done)
          => IF call.args.legacyType \in DOMAIN fromLegacyTypeMapping
             THEN toLegacyType(call.result) = call.args.legacyType
             ELSE call.result = NoMode

(* the geometrically derived properties of a mode *)
DerivedNames(type) ==
    IF type \in {"rectangle", "square"} THEN {"width", "height"}
    ELSE IF type \in {"circle", "curve"} THEN {"radius"}
    ELSE IF type \in {"angle", "straightLine", "orthoLine"} THEN {"angle", "length"}
    ELSE {}

(* C19: for a shape produced by completeShape in any mode,                  *)
(* decode(encode(shape, hierarchical), hierarchical) carries the same       *)
(* geometrically derived properties as the original: width and height for   *)
(* rectangle/square, radius for circle/curve, angle and length for          *)
(* line-like modes, and area wherever the original has one.                 *)
C19_JsonRoundTripKeepsDerived ==
    (call.fn = "serialize" /\ call.done)
        => LET original == call.args.drawing
               decoded == deserialize(call.result, GeneratedId)
           IN  \A name \in DerivedNames(original.type)
                              \cup ({"sqft"} \cap DOMAIN original.properties) :
                   /\ name \in DOMAIN original.properties
                   /\ name \in DOMAIN decoded.properties
                   /\ JsEquals(decoded.properties[name],
                               Num(original.properties[name]))

(* C20: the tagged-markup parser reads exactly the attributes the encoder   *)
(* writes, so decoding the tagged-markup encoding of any shape yields a     *)
(* shape with the same id and the same mode tag as the original.            *)
C20_XmlRoundTripKeepsIdAndType ==
    (call.fn = "serializeXml" /\ call.done)
        => LET original == call.args.drawing
               decoded == deserializeXml(call.result, GeneratedId)
           IN  /\ decoded.id = original.id
               /\ decoded.type = original.type

(* C21: normalizeSweepDirection always returns one of the two values        *)
(* clockwise / counterclockwise; it maps the legacy value "Clockwise" to    *)
(* clockwise and the legacy value "CounterClockwise" to counterclockwise in *)
(* any letter case, and it is idempotent: normalizing an already normalized *)
(* value returns that value.                                                *)
C21_SweepDirectionNormalizes ==
    (call.fn = "normalizeSweepDirection" /\ call.done)
        => LET direction == call.args.direction
               given == IF direction = <<>> THEN <<>>
                        ELSE ToLowerCase(direction[1])
           IN  /\ call.result \in {ClockwiseChars, CounterclockwiseChars}
               /\ given = ClockwiseChars => call.result = ClockwiseChars
               /\ given = CounterclockwiseChars
                     => call.result = CounterclockwiseChars
               /\ normalizeSweepDirection(<<call.result>>) = call.result

(* the batch operations, and the list a call of one of them is given *)
BatchOperations ==
    {"fromLegacyBatch", "toLegacyBatch", "serializeArray", "deserializeArray",
     "serializeXmlArray", "deserializeXmlArray"}

BatchRecords ==
    IF call.fn \in {"toLegacyBatch", "serializeArray", "serializeXmlArray"}
    THEN call.args.drawings
    ELSE IF call.fn = "fromLegacyBatch" THEN call.args.legacyObjects
    ELSE IF call.fn = "deserializeArray" THEN call.args.json
    ELSE call.args.xml

(* C22: a batch import or export over a list of records in which one record *)
(* is malformed still converts every other record of the list: the failure  *)
(* of one record neither aborts the batch nor discards the results for the  *)
(* remaining records.                                                       *)
C22_BatchIsolatesFailures ==
    LET wellFormed == {i \in DOMAIN BatchRecords : ~IsNull(BatchRecords[i])}
    IN  (/\ call.fn \in BatchOperations
         /\ call.done
         /\ wellFormed # DOMAIN BatchRecords)
            => /\ ~call.result.threw
               /\ Len(call.result.value) >= Cardinality(wellFormed)

(* the text holds no digit: there is no number to read in it *)
Unparseable(chars) == \A i \in 1..Len(chars) : ~IsDigit(chars[i])

(* v is a multiple of 1/4 *)
IsQuarterMultiple(v) == (4 * v.num) % v.den = 0

LineLegacyTypes ==
    {n \in DOMAIN fromLegacyTypeMapping :
        fromLegacyTypeMapping[n] \in {"straightLine", "orthoLine"}}

ArcLegacyTypes ==
    {n \in DOMAIN fromLegacyTypeMapping :
        fromLegacyTypeMapping[n] \in {"circle", "curve"}}

(* the points of the pairs of fields the record holds both fields of *)
LinePairs(legacy) ==
    PairPoint(legacy, "lineFootX1", "lineFootY1")
        \o PairPoint(legacy, "lineFootX2", "lineFootY2")

ArcPairs(legacy) ==
    PairPoint(legacy, "arcStartFootX", "arcStartFootY")
        \o PairPoint(legacy, "arcPointFootX", "arcPointFootY")
        \o PairPoint(legacy, "arcMouseEndFootX", "arcMouseEndFootY")

(* C24: importing a legacy record never yields an empty point list: point 0 *)
(* is always the base position parsed from the record's position fields; a  *)
(* line-mode record with both endpoint pairs present yields exactly two     *)
(* further points from them; a circle/curve record appends one point per    *)
(* arc-field pair present (at most three); a record with none of its        *)
(* mode-specific fields yields exactly one point.                           *)
C24_ImportedPoints ==
    (call.fn = "fromLegacy" /\ call.done)
        => LET legacy == call.args.legacy
               type == Field(legacy, "drawingType")
               points == call.result.points
               further == SubSeq(points, 2, Len(points))
           IN  /\ Len(points) >= 1
               /\ points[1] = Pt(fromLegacyFeetString(FeetField(legacy, "footX")),
                                 fromLegacyFeetString(FeetField(legacy, "footY")))
               /\ (type # <<>> /\ type[1] \in LineLegacyTypes
                      /\ Len(LinePairs(legacy)) = 2)
                     => further = LinePairs(legacy)
               /\ (type # <<>> /\ type[1] \in ArcLegacyTypes)
                     => further = ArcPairs(legacy)
               /\ (type # <<>> /\ type[1] \in LineLegacyTypes
                      /\ LinePairs(legacy) = <<>>)
                     => Len(points) = 1
               /\ (type = <<>> \/ type[1] \notin LineLegacyTypes \cup ArcLegacyTypes)
                     => Len(points) = 1

(* the second point of the shape, if it is an orthogonal line with one,     *)
(* shares the x or the y of the first                                       *)
AxisAligned(shape) ==
    (shape.type = "orthoLine" /\ Len(shape.points) >= 2)
        => \/ shape.points[2].x = shape.points[1].x
           \/ shape.points[2].y = shape.points[1].y

(* C25: in every reachable state, an orthogonal-line shape with at least 2  *)
(* points - in progress, or appended by completeShape - has a second point  *)
(* that shares its first point's x or its first point's y, whether the      *)
(* second point was set by addPoint or by an in-progress point update.      *)
C25_OrthoLineIsAxisAligned ==
    LET present == historyRef.present
    IN  /\ ~IsNull(present.currentObject) => AxisAligned(present.currentObject[1])
        /\ lastOp = "completeObject:created"
              => AxisAligned(present.objects[Len(present.objects)])

(* the axis of an orthogonal line with two points *)
Horizontal(shape) == shape.points[2].y = shape.points[1].y
Vertical(shape) == shape.points[2].x = shape.points[1].x

(* the in-progress shape is an orthogonal line with at least 2 points *)
OrthoInProgress(h) ==
    /\ ~IsNull(h.present.currentObject)
    /\ h.present.currentObject[1].type = "orthoLine"
    /\ Len(h.present.currentObject[1].points) >= 2

(* C26, as stated: once an in-progress point update has fixed an            *)
(* orthogonal-line's axis (horizontal when |dx| > |dy| at that update,      *)
(* vertical otherwise), every later update of the same in-progress shape    *)
(* keeps that axis: the axis is not chosen again from the new pointer       *)
(* displacement.                                                            *)
C26_AxisStaysFixed ==
    [][(/\ lastOp = "updateCurrentObjectPoints"
        /\ OrthoInProgress(historyRef)
        /\ Issues("updateCurrentObjectPoints")
        /\ OrthoInProgress(historyRef'))
          => LET before == historyRef.present.currentObject[1]
                 after == historyRef'.present.currentObject[1]
             IN  /\ Horizontal(before) => Horizontal(after)
                 /\ Vertical(before) => Vertical(after)]_vars

(* C26, amended: every in-progress point update of an orthogonal line       *)
(* chooses the axis from the points it is given - horizontal when           *)
(* |dx| > |dy|, vertical otherwise - whatever axis an earlier update chose; *)
(* an update with points that are already constrained keeps them.           *)
C26_AxisChosenAtEveryUpdate ==
    OrthoInProgress(historyRef)
        => \A newPoints \in PointListInputs :
              LET p1 == newPoints[1]
                  p2 == newPoints[2]
                  updated == updateCurrentObjectPointsUpdater(historyRef, newPoints)
                  points == updated.present.currentObject[1].points
                  again == updateCurrentObjectPointsUpdater(updated, points)
              IN  /\ points[1] = p1
                  /\ points[2] = IF Abs(p2.x - p1.x) > Abs(p2.y - p1.y)
                                 THEN Pt(p2.x, p1.y)
                                 ELSE Pt(p1.x, p2.y)
                  /\ SubSeq(points, 3, Len(points))
                        = SubSeq(newPoints, 3, Len(newPoints))
                  /\ again = updated

(* an update made the in-progress orthogonal line horizontal, and a further *)
(* update would make it vertical                                            *)
C26_Witness ==
    /\ lastOp = "updateCurrentObjectPoints"
    /\ OrthoInProgress(historyRef)
    /\ Horizontal(historyRef.present.currentObject[1])
    /\ ~Vertical(historyRef.present.currentObject[1])
    /\ \E newPoints \in PointListInputs :
          LET updated == updateCurrentObjectPointsUpdater(historyRef, newPoints)
          IN  /\ Vertical(updated.present.currentObject[1])
              /\ ~Horizontal(updated.present.currentObject[1])

(* the modes completeObject has an area rule of their own for *)
OwnAreaRule == {"circle", "curve", "rectangle", "square"}

(* C27: every shape that completeShape appends with 3 or more points        *)
(* carries an area property, whatever its mode: for a mode without its own  *)
(* area rule (not only freehand, also e.g. a line completed with 3 points)  *)
(* it is the shoelace area of the shape's points.                           *)
C27_ThreePointsHaveArea ==
    (lastOp = "completeObject:created" /\ changed)
        => LET appended == historyRef.present.objects[
                               Len(historyRef.present.objects)]
           IN  Len(appended.points) >= 3
                  => /\ "sqft" \in DOMAIN appended.properties
                     /\ appended.type \notin OwnAreaRule
                           => appended.properties["sqft"]
                                 = calculateSqft(appended.points)

(* C28: a property update on the in-progress shape is never lost: when      *)
(* updateInProgressProperties(map) is followed by completeShape() (with     *)
(* enough points and no re-render in between), the appended shape's         *)
(* property map contains every entry of map.                                *)
C28_PropertyUpdateSurvivesCompletion ==
    [][(/\ lastOp = "updateCurrentObjectProperties"
        /\ ~IsNull(history.present.currentObject)
        /\ Issues("completeObject:created"))
          => LET appended == historyRef'.present.objects[
                                 Len(historyRef'.present.objects)]
             IN  \A map \in PropInputs :
                    \A name \in DOMAIN map :
                        /\ name \in DOMAIN appended.properties
                        /\ appended.properties[name] = map[name]]_vars

(* C29: every entry pushed onto past records a real change: deleteShape,    *)
(* moveShapeBy or resizeShape called with an id that matches no shape in    *)
(* objects leaves past, present and future unchanged, so undo() never       *)
(* replaces present with a state equal to it.                               *)
C29_UnmatchedIdIsNoOp ==
    [][/\ \A tag \in {"deleteObject", "moveObjectByDelta", "updateObjectPointsById"} :
             (Issues(tag) /\ historyRef'.present.objects = historyRef.present.objects)
                 => historyRef' = historyRef
       /\ (Issues("undo") /\ historyRef.past # <<>>)
             => historyRef'.present # historyRef.present]_vars

(* C30: encoding a full canvas state in the hierarchical format and         *)
(* decoding it again keeps the selection valid: each decoded shape has the  *)
(* id it had when encoded, and the decoded selectedId is absent or is the   *)
(* id of a shape in the decoded objects.                                    *)
C30_CanvasRoundTripKeepsSelection ==
    (call.fn = "serializeCanvasState" /\ call.done)
        => LET original == call.args.state
               decoded == deserializeCanvasState(call.result)
           IN  /\ ~decoded.threw
               /\ Len(decoded.value.objects) = Len(original.objects)
               /\ \A i \in DOMAIN original.objects :
                     decoded.value.objects[i].id = original.objects[i].id
               /\ decoded.value.selectedId \in LiveIds(decoded.value) \cup {NoId}

====
